---- MODULE Spec2Model ----
(***************************************************************************)
(* Model of the popup sync store (useSyncStore, src/unnamed/part_002).     *)
(*                                                                         *)
(* The store is a single-threaded object whose async actions suspend at    *)
(* every `await`; each action of this module is one run-to-suspension      *)
(* segment of a handler.  The extension background (the receiver of        *)
(* chrome.runtime.sendMessage) and chrome.storage are the environment:     *)
(* their answers are chosen with \E.                                       *)
(*                                                                         *)
(* The MCP client of the background (McpClient, src/unnamed/part_004) is   *)
(* the record `mcp`: its fields, the sockets it has created and the        *)
(* timeouts it has set.  Socket events and timer expiry are steps of the   *)
(* environment that run the handler attached at that moment.               *)
(*                                                                         *)
(* The platform adapters (WeixinAdapter, src/unnamed/part_000;             *)
(* JuejinAdapter, juejin.ts; ImoocAdapter, imooc.ts) are the record        *)
(* `adapter`: their cached session fields and the trace and result of the  *)
(* last call, whose awaits the injected runtime answers.  The request      *)
(* signer (signAWS4, src/unnamed/part_001) is applied to the pair of query *)
(* strings held in `signing`.                                              *)
(***************************************************************************)
EXTENDS Integers, Sequences, FiniteSets, TLC

\* ---------------------------------------------------------------- bounds
MaxPasses == 2      \* publish passes (store passes and external syncs) per behaviour
MaxInFlight == 1    \* async store actions suspended at the same time
MaxOverlap == 2     \* the same where a refresh of the platforms overlaps a pass
MaxImages == 1      \* images reported by IMAGE_PROGRESS events
MaxRecoverCalls == 1 \* overlapping recoverSyncState calls
MaxRecoverOverlap == 2 \* the same where the calls of recoverSyncState overlap
MaxImoocCalls == 2     \* calls made on one ImoocAdapter instance
MaxSockets == 3      \* WebSocket objects whose close event is still to come
MaxTimers == 2       \* handles setTimeout can hand out at the same time
MaxCalls == 1        \* control-channel requests awaiting a collaborator
MaxArticleImages == 1 \* images of an article handed to an adapter
MaxParams == 3        \* parameters of a query string handed to the signer

\* ---------------------------------------------------------------- domains
DslIds == {"d1"}                      \* built-in platforms known to the background
CmsIds == {"c1", "c2"}                \* self-hosted accounts in storage.cmsAccounts
Ids == DslIds \cup CmsIds
PlatformOrder == <<"d1", "c1", "c2">> \* order in which the collaborators list them
Articles == {"a1"}
NoArticle == "null"
NoError == "null"
NoProgress == [platform |-> "null", current |-> 0, total |-> 0]
ErrNoArticle == "no article detected"
ErrNoPlatform == "select a platform"
ErrInfra == "rejected"

\* ---------------------------------------------------------------- helpers
Range(s) == {s[i] : i \in 1..Len(s)}

Contains(s, x) == x \in Range(s)

\* ps.map(p => p.id)
IdsOf(ps) == [i \in 1..Len(ps) |-> ps[i].id]

\* rs.map(r => r.platform)
PlatformsOf(rs) == [i \in 1..Len(rs) |-> rs[i].platform]

\* Array.prototype.filter with the predicate "is a member of S"
FilterIn(s, S) == SelectSeq(s, LAMBDA x : x \in S)

\* Array.prototype.filter(id => id !== x)
Without(s, x) == SelectSeq(s, LAMBDA y : y # x)

\* ---------------------------------------------------------------- data
\* Platform (interface Platform); name, icon, homepage are carried by the id
Platform(id, sourceType) ==
    [id |-> id, isAuthenticated |-> TRUE, sourceType |-> sourceType]

\* SyncResult; `named` tells whether platformName is present.  postUrl,
\* draftOnly and error are functions of (platform, success) and are left out.
Result(platform, success, named) ==
    [platform |-> platform, success |-> success, named |-> named]

\* SyncHistoryItem; cover and timestamp are created with the id and travel with it
HistoryItem(id, title, rs) == [id |-> id, title |-> title, results |-> rs]

\* a message handed to chrome.runtime.sendMessage
Msg(type, platformIds, skipHistory) ==
    [type |-> type, platforms |-> platformIds, skipHistory |-> skipHistory]

\* ---------------------------------------------------------------- pure parts of the store
\* platforms.filter(p => p.isAuthenticated).map(p => p.id)
AuthenticatedIds(ps) ==
    IdsOf(SelectSeq(ps, LAMBDA p : p.isAuthenticated))

\* loadPlatforms: authenticated dsl platforms, then connected cms accounts
BuildPlatforms(authed, connected) ==
    LET dsl == FilterIn(PlatformOrder, DslIds \cap authed)
        cms == FilterIn(PlatformOrder, CmsIds \cap connected)
    IN  [i \in 1..Len(dsl) |-> Platform(dsl[i], "dsl")]
        \o [i \in 1..Len(cms) |-> Platform(cms[i], "cms")]

\* the saved selection taken over without the authentication filter
FilterSavedKeepsAll(saved, ps) == saved

\* loadPlatforms: saved selections that are still authenticated
FilterSaved(saved, ps) ==
    IF Len(saved) > 0 THEN FilterIn(saved, Range(AuthenticatedIds(ps))) ELSE <<>>

\* platforms.find(p => p.id === id)?.sourceType
SourceTypeOf(ps, id) ==
    LET hits == SelectSeq(ps, LAMBDA p : p.id = id)
    IN  IF Len(hits) > 0 THEN hits[1].sourceType ELSE "undefined"

\* ids.filter(id => platforms.find(...)?.sourceType === kind)
OfKind(ids, ps, kind) == SelectSeq(ids, LAMBDA id : SourceTypeOf(ps, id) = kind)

\* every platform of the last pass, failed or not
FailedPlatformIdsAll(rs) == PlatformsOf(rs)

\* results.filter(r => !r.success).map(r => r.platform)
FailedPlatformIds(rs) ==
    PlatformsOf(SelectSeq(rs, LAMBDA r : ~r.success))

\* results.filter(r => r.success)
SuccessResults(rs) == SelectSeq(rs, LAMBDA r : r.success)

\* allResults.map(r => ({...r, platformName: ... || r.platform}))
WithNames(rs) == [i \in 1..Len(rs) |-> [rs[i] EXCEPT !.named = TRUE]]

\* a toggle that never removes
ToggledAppends(sel, id) == Append(sel, id)

\* togglePlatform's newSelected
Toggled(sel, id) == IF Contains(sel, id) THEN Without(sel, id) ELSE Append(sel, id)

\* the retried entry put in front of the history instead of replacing entry 0
UpdateFirstAppends(h, rs) == <<[h[1] EXCEPT !.results = rs]>> \o h

\* updatedHistory[0] = {...updatedHistory[0], results: allResults}
UpdateFirst(h, rs) == [h EXCEPT ![1] = [h[1] EXCEPT !.results = rs]]

\* ---------------------------------------------------------------- environment
MAX_HISTORY_ITEMS == 25

\* the id (time stamp) of an entry saved now: later than that of the newest entry
SaveId(h) == IF Len(h) = 0 \/ h[1].id < 0 THEN 1 ELSE h[1].id + 1

\* the background's history write: newest first, capped
BackgroundSaveHistory(h, item) ==
    LET n == <<item>> \o h
    IN  SubSeq(n, 1, IF Len(n) > MAX_HISTORY_ITEMS THEN MAX_HISTORY_ITEMS ELSE Len(n))

\* response.results of a SYNC_ARTICLE batch: one raw result per requested platform
BatchResults(ids) ==
    {rs \in [1..Len(ids) -> [platform : Ids, success : BOOLEAN, named : {FALSE}]] :
        \A i \in 1..Len(ids) : rs[i].platform = ids[i]}

\* payloads of the SYNC_PROGRESS events of a batch: one per platform of the batch
ProgressResults(ids) == [platform : ids, success : BOOLEAN, named : {FALSE}]

\* answers to CHECK_ALL_AUTH (authenticated dsl ids) and storage.cmsAccounts
\* (connected accounts)
PlatformAnswers ==
    {<<{"d1"}, {"c1", "c2"}>>, <<{}, {"c1"}>>}

\* payloads of IMAGE_PROGRESS events
ImageEvents ==
    [platform : Ids, current : 1..MaxImages, total : {MaxImages}] \cup {NoProgress}

\* syncState answers to GET_SYNC_STATE (a pass that an earlier popup left behind)
Snapshots ==
    {[status |-> "syncing", article |-> "a1", selectedPlatforms |-> <<"d1", "c1">>,
      results |-> <<>>],
     [status |-> "completed", article |-> "a1", selectedPlatforms |-> <<"d1", "c1">>,
      results |-> <<Result("d1", FALSE, TRUE), Result("c1", TRUE, TRUE)>>]}

\* storage contents an earlier session may have left
OldHistory == <<HistoryItem(0, "a0", <<Result("d1", TRUE, TRUE)>>)>>
InitSaved == {<<>>}
InitHistories == {<<>>, OldHistory}

\* ---------------------------------------------------------------- MCP client
\* McpClient (src/unnamed/part_004): one WebSocket to the local MCP server,
\* re-opened by a timer with exponential backoff.
minReconnectInterval == 1000
maxReconnectInterval == 30000
maxReconnectAttempts == 100

SocketIds == 1..MaxSockets
TimerIds == 1..MaxTimers
NoSocket == 0      \* this.ws = null
NoTimer == 0       \* this.reconnectTimer = null

\* a socket slot that holds no socket: closed, its close event delivered
ClosedSocket ==
    [readyState |-> "CLOSED", onopen |-> FALSE, onmessage |-> FALSE,
     onclose |-> FALSE, onerror |-> FALSE]

\* new WebSocket(serverUrl) followed by the four handler assignments
NewSocket ==
    [readyState |-> "CONNECTING", onopen |-> TRUE, onmessage |-> TRUE,
     onclose |-> TRUE, onerror |-> TRUE]

\* ws.onclose = ws.onerror = ws.onmessage = ws.onopen = null
Detached(s) ==
    [s EXCEPT !.onopen = FALSE, !.onmessage = FALSE, !.onclose = FALSE,
              !.onerror = FALSE]

\* ws.close(): starts the closing handshake of a socket that is not closed yet
Closed(s) ==
    IF s.readyState \in {"CONNECTING", "OPEN"}
    THEN [s EXCEPT !.readyState = "CLOSING"] ELSE s

\* some handler of the client is attached to the socket
Attached(s) == s.onopen \/ s.onmessage \/ s.onclose \/ s.onerror

FreeSockets(sockets) == {i \in SocketIds : sockets[i].readyState = "CLOSED"}
FreeSocket(sockets) ==
    CHOOSE i \in FreeSockets(sockets) : \A j \in FreeSockets(sockets) : i <= j

TimerHandles(timers) == {t.id : t \in timers}
FreeTimer(timers) ==
    CHOOSE i \in TimerIds \ TimerHandles(timers) :
        \A j \in TimerIds \ TimerHandles(timers) : i <= j

\* clearTimeout(handle)
ClearTimeout(timers, handle) == {t \in timers : t.id # handle}

RECURSIVE ScaledMin(_, _, _)
\* min(base * 2^n, cap), doubling only while below the cap
ScaledMin(base, n, cap) ==
    IF base >= cap THEN cap
    ELSE IF n = 0 THEN base
    ELSE ScaledMin(2 * base, n - 1, cap)

\* a backoff that adds the minimum interval at every attempt
IntervalLinear(n) ==
    IF minReconnectInterval * (n + 1) < maxReconnectInterval
    THEN minReconnectInterval * (n + 1) ELSE maxReconnectInterval

\* Math.min(minReconnectInterval * Math.pow(2, n), maxReconnectInterval)
Interval(n) ==
    ScaledMin(minReconnectInterval, n, maxReconnectInterval)

\* ---- requests of the control channel (handleMessage, handleMethod)
NoToken == "null"            \* this.token = null
Undefined == "undefined"     \* a field JSON.stringify leaves out
Tokens == {"", "t1"}         \* arguments of setToken
MessageTokens == {Undefined, "t1", "t2"}   \* token of a request, if any
RequestIds == {"r1", "r2"}
Methods ==
    {"listPlatforms", "checkAuth", "syncArticle", "extractArticle",
     "uploadImage", "bogus"}

\* the parameters a method requires
ParamsOf(method) ==
    CASE method = "checkAuth" -> {"platform"}
      [] method = "syncArticle" -> {"platforms", "title", "markdown", "content"}
      [] method = "uploadImage" -> {"imageData", "mimeType"}
      [] OTHER -> {}

\* request messages; params is the set of parameters given with a truthy value.
\* Requests carrying the token "t1" and all parameters of their method come
\* with either id; those lacking a parameter, and those with another or no
\* token, come with the id "r1".
Requests ==
    UNION {[json : {"object"}, id : RequestIds, method : {method},
            token : {"t1"}, params : {ParamsOf(method)}]
           \cup [json : {"object"}, id : {"r1"}, method : {method},
                 token : {"t1"}, params : SUBSET ParamsOf(method)]
           \cup [json : {"object"}, id : {"r1"}, method : {method},
                 token : MessageTokens \ {"t1"}, params : {ParamsOf(method)}]
           : method \in Methods}

\* what the socket can deliver: a request, text that is not JSON, the JSON null
Datas ==
    Requests
    \cup [json : {"garbage", "null"}, id : {Undefined}, method : {Undefined},
          token : {Undefined}, params : {{}}]

ErrorOf(code, message) == [code |-> code, message |-> message]
NoFailure == ErrorOf(0, Undefined)     \* `error` left undefined

\* a token check that lets a request without token through
TokenErrorLoose(token, messageToken) ==
    IF token \in {NoToken, ""}
    THEN ErrorOf(401, "MCP token not configured")
    ELSE IF messageToken \notin {token, Undefined}
         THEN ErrorOf(403, "Invalid or missing token")
         ELSE NoFailure

\* the token check of handleMessage: the error it assigns, or none
TokenError(token, messageToken) ==
    IF token \in {NoToken, ""}
    THEN ErrorOf(401, "MCP token not configured")
    ELSE IF messageToken # token
         THEN ErrorOf(403, "Invalid or missing token")
         ELSE NoFailure

\* parameter checks that let a syncArticle without title through
ValidationErrorSkipsTitle(method, params) ==
    CASE method \in {"listPlatforms", "extractArticle"} -> Undefined
      [] method = "checkAuth" ->
            IF "platform" \notin params THEN "Missing platform parameter"
            ELSE Undefined
      [] method = "syncArticle" ->
            IF "platforms" \notin params THEN "Missing platforms parameter"
            ELSE IF "markdown" \notin params /\ "content" \notin params
                 THEN "Missing article content"
            ELSE Undefined
      [] method = "uploadImage" ->
            IF "imageData" \notin params THEN "Missing imageData parameter"
            ELSE IF "mimeType" \notin params THEN "Missing mimeType parameter"
            ELSE Undefined
      [] OTHER -> "Unknown method"

\* handleMethod up to its first await: the Error thrown by the parameter
\* checks, or none
ValidationError(method, params) ==
    CASE method \in {"listPlatforms", "extractArticle"} -> Undefined
      [] method = "checkAuth" ->
            IF "platform" \notin params THEN "Missing platform parameter"
            ELSE Undefined
      [] method = "syncArticle" ->
            IF "platforms" \notin params THEN "Missing platforms parameter"
            ELSE IF "title" \notin params THEN "Missing article title"
            ELSE IF "markdown" \notin params /\ "content" \notin params
                 THEN "Missing article content"
            ELSE Undefined
      [] method = "uploadImage" ->
            IF "imageData" \notin params THEN "Missing imageData parameter"
            ELSE IF "mimeType" \notin params THEN "Missing mimeType parameter"
            ELSE Undefined
      [] OTHER -> "Unknown method"

\* the collaborator a method awaits first
FirstCall(method) ==
    CASE method = "listPlatforms" -> "checkAllPlatformsAuth"
      [] method = "checkAuth" -> "checkPlatformAuth"
      [] method = "syncArticle" -> "SYNC_ARTICLE"
      [] method = "extractArticle" -> "tabs.query"
      [] method = "uploadImage" -> "getAdapter"

\* how an awaited collaborator can answer
Answers(call) ==
    CASE call = "SYNC_ARTICLE" -> {"results", "error", "noResponse", "rejects"}
      [] call = "tabs.query" -> {"tab", "noTab", "rejects"}
      [] call = "executeScript" -> {"value", "null", "rejects"}
      [] call = "getAdapter" -> {"adapter", "noUpload", "null", "rejects"}
      [] OTHER -> {"value", "rejects"}

\* the collaborator awaited next after an answer, if the method goes on
NextCall(call, answer) ==
    IF call = "tabs.query" /\ answer = "tab" THEN "executeScript"
    ELSE IF call = "getAdapter" /\ answer = "adapter" THEN "uploadImageBase64"
    ELSE Undefined

\* the value handleMethod returns after the last answer, if it returns
ResultOf(call, answer) ==
    CASE call = "SYNC_ARTICLE" /\ answer = "results" -> "value"
      [] call = "executeScript" /\ answer = "null" -> "null"
      [] call \notin {"SYNC_ARTICLE", "tabs.query", "getAdapter"}
            /\ answer = "value" -> "value"
      [] OTHER -> Undefined

\* the message of the Error handleMethod throws after the last answer, if it
\* throws
ThrownOf(call, answer) ==
    CASE answer = "rejects" -> "rejected"
      [] call = "SYNC_ARTICLE" /\ answer = "error" -> "response.error"
      [] call = "SYNC_ARTICLE" /\ answer = "noResponse" -> "TypeError"
      [] call = "tabs.query" /\ answer = "noTab" -> "No active tab found"
      [] call = "getAdapter" /\ answer = "null" -> "Platform not found"
      [] call = "getAdapter" /\ answer = "noUpload" ->
            "does not support base64 image upload"
      [] OTHER -> Undefined

\* the response object built at the end of handleMessage
Response(id, result, error) == [id |-> id, result |-> result, error |-> error]

\* JSON.stringify of a response that drops the error
StringifyResultOnly(response) ==
    [k \in {f \in {"id", "result"} : response[f] # Undefined}
        |-> response[k]]

\* JSON.stringify(response): fields whose value is undefined are left out
Stringify(response) ==
    [k \in {f \in {"id", "result"} : response[f] # Undefined}
            \cup (IF response.error # NoFailure THEN {"error"} ELSE {})
        |-> response[k]]

McpInit ==
    [ws |-> NoSocket, reconnectTimer |-> NoTimer, reconnectAttempts |-> 0,
     sockets |-> [i \in SocketIds |-> ClosedSocket], timers |-> {},
     token |-> NoToken, calls |-> {}]

\* scheduleReconnect without the check for a pending timer
ScheduleReconnectUnguarded(m) ==
    IF m.reconnectAttempts >= maxReconnectAttempts THEN m
    ELSE [m EXCEPT !.reconnectAttempts = @ + 1,
                   !.reconnectTimer = FreeTimer(m.timers),
                   !.timers = @ \cup {[id |-> FreeTimer(m.timers),
                                       interval |-> Interval(m.reconnectAttempts)]}]

\* scheduleReconnect
ScheduleReconnect(m) ==
    IF m.reconnectTimer # NoTimer THEN m
    ELSE IF m.reconnectAttempts >= maxReconnectAttempts THEN m
    ELSE [m EXCEPT !.reconnectAttempts = @ + 1,
                   !.reconnectTimer = FreeTimer(m.timers),
                   !.timers = @ \cup {[id |-> FreeTimer(m.timers),
                                       interval |-> Interval(m.reconnectAttempts)]}]

\* isConnected
IsConnected(m) ==
    m.ws # NoSocket /\ m.sockets[m.ws].readyState = "OPEN"

\* connect, first half: the old socket, if not open, is detached and dropped
Dropped(m) ==
    IF m.ws = NoSocket THEN m
    ELSE [m EXCEPT !.sockets[m.ws] =
                       IF @.readyState = "CONNECTING"
                       THEN Closed(Detached(@)) ELSE Detached(@),
                   !.ws = NoSocket]

\* connect that leaves the old socket as it is
ConnectKeepsOld(m, constructed) ==
    IF IsConnected(m) THEN m
    ELSE IF constructed
         THEN [m EXCEPT !.ws = FreeSocket(m.sockets),
                        !.sockets[FreeSocket(m.sockets)] = NewSocket]
         ELSE ScheduleReconnect([m EXCEPT !.ws = NoSocket])

\* connect; constructed = FALSE is `new WebSocket` throwing
Connect(m, constructed) ==
    IF IsConnected(m) THEN m
    ELSE IF constructed
         THEN [Dropped(m) EXCEPT !.ws = FreeSocket(Dropped(m).sockets),
                                 !.sockets[FreeSocket(Dropped(m).sockets)] = NewSocket]
         ELSE ScheduleReconnect(Dropped(m))

\* a socket can be constructed within the bound
CanConstruct(m) == IsConnected(m) \/ FreeSockets(Dropped(m).sockets) # {}

\* disconnect that leaves a pending reconnect timer running
DisconnectKeepsTimer(m) ==
    LET b == [m EXCEPT !.reconnectAttempts = maxReconnectAttempts]
    IN  IF b.ws = NoSocket THEN b
        ELSE [b EXCEPT !.sockets[b.ws] = Closed([@ EXCEPT !.onclose = FALSE]),
                       !.ws = NoSocket]

\* disconnect
Disconnect(m) ==
    LET b == [m EXCEPT !.reconnectAttempts = maxReconnectAttempts,
                       !.timers = ClearTimeout(@, m.reconnectTimer),
                       !.reconnectTimer = NoTimer]
    IN  IF b.ws = NoSocket THEN b
        ELSE [b EXCEPT !.sockets[b.ws] = Closed([@ EXCEPT !.onclose = FALSE]),
                       !.ws = NoSocket]

\* resetReconnect that leaves the attempt counter alone
ResetReconnectKeepsCounter(m, constructed) ==
    IF IsConnected(m) THEN m ELSE Connect(m, constructed)

\* resetReconnect
ResetReconnect(m, constructed) ==
    IF IsConnected(m) THEN [m EXCEPT !.reconnectAttempts = 0]
    ELSE Connect([m EXCEPT !.reconnectAttempts = 0], constructed)

\* ws.onopen that clears the timer but keeps the attempt counter
OnOpenKeepsCounter(m) ==
    [m EXCEPT !.timers = ClearTimeout(@, m.reconnectTimer),
              !.reconnectTimer = NoTimer]

\* ws.onopen
OnOpen(m) ==
    [m EXCEPT !.reconnectAttempts = 0,
              !.timers = ClearTimeout(@, m.reconnectTimer),
              !.reconnectTimer = NoTimer]

\* ws.onclose
OnClose(m) == ScheduleReconnect([m EXCEPT !.ws = NoSocket])

\* the callback of the reconnect timer
TimerCallback(m, constructed) ==
    Connect([m EXCEPT !.reconnectTimer = NoTimer], constructed)

\* the branch handleMessage takes up to its first await
Verdict(token, data) ==
    IF data.json # "object" THEN "mcp.msg.unparseable"
    ELSE IF TokenError(token, data.token).code = 401 THEN "mcp.msg.401"
    ELSE IF TokenError(token, data.token).code = 403 THEN "mcp.msg.403"
    ELSE IF ValidationError(data.method, data.params) # Undefined
         THEN "mcp.msg.invalid"
    ELSE "mcp.msg.dispatch"

\* this.ws?.send(text): written when the socket is OPEN; without socket nothing
\* is called, on a CONNECTING socket send throws (caught and logged), on a
\* CLOSING one the text is discarded
Send(m, text) ==
    IF IsConnected(m)
    THEN {[type |-> "response", text |-> text, socket |-> m.ws]} ELSE {}

\* the response handleMessage builds without awaiting a collaborator
Refusal(token, data) ==
    IF Verdict(token, data) = "mcp.msg.invalid"
    THEN Response(data.id, Undefined,
                  ErrorOf(-1, ValidationError(data.method, data.params)))
    ELSE Response(data.id, Undefined, TokenError(token, data.token))

\* the response handleMessage builds after the last answer of a collaborator
Completion(c, answer) ==
    Response(c.id, ResultOf(c.call, answer),
             IF ThrownOf(c.call, answer) # Undefined
             THEN ErrorOf(-1, ThrownOf(c.call, answer)) ELSE NoFailure)

\* the requests being served once socket s is gone: a request keeps the socket
\* it arrived on (the client's socket at that time) while that socket exists
SocketGone(calls, s) ==
    {[c EXCEPT !.socket = IF @ = s THEN NoSocket ELSE @] : c \in calls}

\* handleMessage that gives up the connection on text it cannot parse
HandleMessageDropsSocket(m, data) ==
    IF Verdict(m.token, data) = "mcp.msg.dispatch"
    THEN [m EXCEPT !.calls = @ \cup {[id |-> data.id, method |-> data.method,
                                      call |-> FirstCall(data.method),
                                      socket |-> m.ws]}]
    ELSE IF Verdict(m.token, data) = "mcp.msg.unparseable" THEN Disconnect(m)
    ELSE m

\* handleMessage up to its first await (or to its end): the client afterwards
HandleMessage(m, data) ==
    IF Verdict(m.token, data) = "mcp.msg.dispatch"
    THEN [m EXCEPT !.calls = @ \cup {[id |-> data.id, method |-> data.method,
                                      call |-> FirstCall(data.method),
                                      socket |-> m.ws]}]
    ELSE m

\* handleMessage up to its first await: the collaborator called or the response
\* written
HandleMessageEffects(m, data) ==
    CASE Verdict(m.token, data) = "mcp.msg.unparseable" -> {}
      [] Verdict(m.token, data) = "mcp.msg.dispatch" ->
            {[type |-> FirstCall(data.method)]}
      [] OTHER -> Send(m, Stringify(Refusal(m.token, data)))

\* handleMessage resumed by the answer of the awaited collaborator: the client
\* afterwards
Resumed(m, c, answer) ==
    IF NextCall(c.call, answer) # Undefined
    THEN [m EXCEPT !.calls = (@ \ {c})
                       \cup {[c EXCEPT !.call = NextCall(c.call, answer)]}]
    ELSE [m EXCEPT !.calls = @ \ {c}]

\* handleMessage resumed: the collaborator called next or the response written
ResumedEffects(m, c, answer) ==
    IF NextCall(c.call, answer) # Undefined
    THEN {[type |-> NextCall(c.call, answer)]}
    ELSE Send(m, Stringify(Completion(c, answer)))

\* ---------------------------------------------------------------- platform adapters
\* The adapters WeixinAdapter (part_000), JuejinAdapter (juejin.ts) and
\* ImoocAdapter (imooc.ts). A call runs to its result; what the injected runtime
\* answers at each await of the call is the record rt. The requests and the
\* transformation steps of the call are kept, in order, in log.
AdapterIds == {"weixin", "juejin", "imooc"}

\* an awaited promise resolves, rejects with an Error, or rejects with null/undefined
Settles == {"ok", "rejects", "rejectsNull"}
NoThrow == "none"
Thrown(answer) ==
    IF answer = "rejects" THEN "Error"
    ELSE IF answer = "rejectsNull" THEN "nullish"
    ELSE NoThrow

\* what the login probe answers: the body of a logged-in session, of a logged-out
\* one, a body that parses but lacks the fields read, a body that does not parse
AuthAnswers == {"loggedIn", "loggedOut", "malformed", "unparseable", "rejects", "rejectsNull"}
CsrfAnswers == {"token", "noHeader", "badFormat", "rejects", "rejectsNull"}
UploadAnswers == {"url", "rejects"}
CreateAnswers == {"created", "refused", "unparseable", "rejects", "rejectsNull"}

\* the spans between dollar signs of an article, and the three tests of isLatexFormula
LatexCommandSpans == {"x^2"}
GreekSpans == {"greek"}
MathSymbolSpans == {"sum"}
Spans == {"x^2", "5"}
IsLatexFormula(text) ==
    text \in LatexCommandSpans \/ text \in GreekSpans \/ text \in MathSymbolSpans

\* an article: the number of its images and its spans between dollar signs
AdapterArticles ==
    [images : 0..MaxArticleImages, spans : {<<>>} \cup {<<t>> : t \in Spans}]
NoAdapterArticle == [images |-> 0, spans |-> <<>>]

\* the content under transformation: its image references and its spans
ContentOf(post) ==
    [images |-> [i \in 1..post.images |-> [kind |-> "image", of |-> i]],
     spans |-> post.spans]

\* processLatex: a span that is a formula becomes an image of the renderer, in place
RECURSIVE FormulaImages(_, _)
FormulaImages(spans, i) ==
    IF i > Len(spans) THEN <<>>
    ELSE (IF IsLatexFormula(spans[i]) THEN <<[kind |-> "formula", of |-> i]>> ELSE <<>>)
         \o FormulaImages(spans, i + 1)

ProcessLatex(content) ==
    [images |-> content.images \o FormulaImages(content.spans, 1),
     spans |-> content.spans]

\* the results of the calls
AuthResult(isAuthenticated, error) ==
    [kind |-> "AuthResult", isAuthenticated |-> isAuthenticated, error |-> error]
SyncResult(platform, success, postId, postUrl, error) ==
    [kind |-> "SyncResult", platform |-> platform, success |-> success,
     postId |-> postId, postUrl |-> postUrl, error |-> error]
\* the call rejected: with the reason of a rejection it did not catch, or with
\* the TypeError of reading the message of null or undefined
Raised(thrown) == [kind |-> "raised", thrown |-> thrown]
NoOutcome == [kind |-> "none"]

\* createResult of the base class: the result carries the adapter's meta id
CreateResult(id, success, postId, postUrl, error) ==
    SyncResult(id, success, postId, postUrl, error)

\* the runtime's answers to one call, here those of a call that meets no failure
DefaultRuntime ==
    [headerRules |-> TRUE, add |-> "ok", remove |-> "ok", removeAgain |-> "ok",
     auth |-> "loggedIn", csrf |-> "token", upload |-> "url",
     abortOnImage |-> TRUE, create |-> "created"]

\* the instances before any call
AdapterInit ==
    [weixinMeta |-> FALSE, headerRuleId |-> FALSE, cachedCsrfToken |-> FALSE,
     id |-> "none", method |-> "none", article |-> NoAdapterArticle,
     log |-> <<>>, outcome |-> NoOutcome]

Called(a, id, method, post) ==
    [a EXCEPT !.id = id, !.method = method, !.article = post,
              !.log = <<>>, !.outcome = NoOutcome]
Logged(a, event) == [a EXCEPT !.log = Append(@, event)]
Finished(a, outcome) == [a EXCEPT !.outcome = outcome]

\* a step of a call: the instance after it, what it threw, and its value
Went(a, thrown, value) == [a |-> a, thrown |-> thrown, value |-> value]

\* the entries of the log
Event(op) == [op |-> op, src |-> [kind |-> "none", of |-> 0]]
Upload(src) == [op |-> "upload", src |-> src]
Removals(a) == Cardinality({i \in 1..Len(a.log) : a.log[i].op = "headerRules.remove"})

\* ImoocAdapter.addHeaderRules
AddHeaderRules(a, rt) ==
    IF ~rt.headerRules THEN Went(a, NoThrow, Undefined)
    ELSE IF rt.add = "ok"
    THEN Went(Logged([a EXCEPT !.headerRuleId = TRUE], Event("headerRules.add")),
              NoThrow, Undefined)
    ELSE Went(Logged(a, Event("headerRules.add")), Thrown(rt.add), Undefined)

\* ImoocAdapter.removeHeaderRules
RemoveHeaderRules(a, rt) ==
    IF ~rt.headerRules \/ ~a.headerRuleId THEN Went(a, NoThrow, Undefined)
    ELSE LET answer == IF Removals(a) = 0 THEN rt.remove ELSE rt.removeAgain
             asked == Logged(a, Event("headerRules.remove"))
         IN  IF answer = "ok"
             THEN Went([asked EXCEPT !.headerRuleId = FALSE], NoThrow, Undefined)
             ELSE Went(asked, Thrown(answer), Undefined)

\* catch (error) { return { isAuthenticated: false, error: error.message } }
CaughtAuth(a, thrown) ==
    IF thrown = "nullish" THEN Finished(a, Raised("TypeError"))
    ELSE Finished(a, AuthResult(FALSE, "message"))

\* the probe request of checkAuth and the reading of its body
AuthFetch(a, rt) ==
    Went(Logged(a, Event("fetch.auth")), Thrown(rt.auth), rt.auth)

\* WeixinAdapter.checkAuth
WeixinCheckAuth(a, rt) ==
    LET f == AuthFetch(a, rt)
    IN  IF f.thrown # NoThrow THEN CaughtAuth(f.a, f.thrown)
        ELSE IF f.value = "loggedIn"
        THEN Finished([f.a EXCEPT !.weixinMeta = TRUE], AuthResult(TRUE, Undefined))
        ELSE Finished(f.a, AuthResult(FALSE, Undefined))

\* JuejinAdapter.checkAuth
JuejinCheckAuth(a, rt) ==
    LET f == AuthFetch(a, rt)
    IN  IF f.thrown # NoThrow THEN CaughtAuth(f.a, f.thrown)
        ELSE IF f.value \in {"malformed", "unparseable"} THEN CaughtAuth(f.a, "Error")
        ELSE IF f.value = "loggedIn" THEN Finished(f.a, AuthResult(TRUE, Undefined))
        ELSE Finished(f.a, AuthResult(FALSE, Undefined))

\* the catch block of ImoocAdapter.checkAuth
ImoocCaughtAuth(a, rt, thrown) ==
    LET r == RemoveHeaderRules(a, rt)
    IN  IF r.thrown # NoThrow THEN Finished(r.a, Raised(r.thrown))
        ELSE CaughtAuth(r.a, thrown)

\* ImoocAdapter.checkAuth
ImoocCheckAuth(a, rt) ==
    LET h == AddHeaderRules(a, rt)
        f == AuthFetch(h.a, rt)
        r == RemoveHeaderRules(f.a, rt)
    IN  IF h.thrown # NoThrow THEN ImoocCaughtAuth(h.a, rt, h.thrown)
        ELSE IF f.thrown # NoThrow THEN ImoocCaughtAuth(f.a, rt, f.thrown)
        ELSE IF f.value = "unparseable" THEN ImoocCaughtAuth(f.a, rt, "Error")
        ELSE IF r.thrown # NoThrow THEN ImoocCaughtAuth(r.a, rt, r.thrown)
        ELSE IF f.value = "malformed" THEN ImoocCaughtAuth(r.a, rt, "Error")
        ELSE IF f.value = "loggedOut" THEN Finished(r.a, AuthResult(FALSE, "message"))
        ELSE Finished(r.a, AuthResult(TRUE, Undefined))

CheckAuth(a, rt) ==
    IF a.id = "weixin" THEN WeixinCheckAuth(a, rt)
    ELSE IF a.id = "juejin" THEN JuejinCheckAuth(a, rt)
    ELSE ImoocCheckAuth(a, rt)

\* uploadImageByUrl of each adapter: the url of the re-hosted image, or a throw
UploadImageByUrl(a, rt) ==
    IF a.id = "juejin" THEN Went(a, NoThrow, "url")
    ELSE IF a.id = "weixin" /\ ~a.weixinMeta THEN Went(a, "Error", Undefined)
    ELSE Went(a, Thrown(rt.upload), rt.upload)

\* processImages of the base class: the images go to the upload function one at
\* a time; a throwing upload ends the pipeline or leaves the image as it was
RECURSIVE ProcessImages(_, _, _)
ProcessImages(a, images, rt) ==
    IF images = <<>> THEN Went(Logged(a, Event("processImages.done")), NoThrow, Undefined)
    ELSE LET u == UploadImageByUrl(Logged(a, Upload(Head(images))), rt)
         IN  IF u.thrown # NoThrow /\ rt.abortOnImage THEN Went(u.a, u.thrown, Undefined)
             ELSE ProcessImages(u.a, Tail(images), rt)

\* the create/draft request of publish and the reading of its body
CreateFetch(a, rt) ==
    Went(Logged(a, Event("fetch.create")),
         IF rt.create = "unparseable" THEN "Error" ELSE Thrown(rt.create), rt.create)

\* catch (error) { return this.createResult(false, { error: error.message }) }
CaughtPublish(a, thrown) ==
    IF thrown = "nullish" THEN Finished(a, Raised("TypeError"))
    ELSE Finished(a, CreateResult(a.id, FALSE, Undefined, Undefined, "message"))

\* step 1 without its throw: the publish goes on when the login is missing
EnsureAuthUnchecked(a, rt) ==
    IF a.weixinMeta THEN Went(Logged(a, Event("authEnsured")), NoThrow, Undefined)
    ELSE LET w == WeixinCheckAuth(a, rt)
             back == [w EXCEPT !.outcome = NoOutcome]
         IN  IF w.outcome.kind = "AuthResult" /\ w.outcome.isAuthenticated
             THEN Went(Logged(back, Event("authEnsured")), NoThrow, Undefined)
             ELSE Went(back, NoThrow, Undefined)

\* step 1 of WeixinAdapter.publish
EnsureAuth(a, rt) ==
    IF a.weixinMeta THEN Went(Logged(a, Event("authEnsured")), NoThrow, Undefined)
    ELSE LET w == WeixinCheckAuth(a, rt)
             back == [w EXCEPT !.outcome = NoOutcome]
         IN  IF w.outcome.kind = "AuthResult" /\ w.outcome.isAuthenticated
             THEN Went(Logged(back, Event("authEnsured")), NoThrow, Undefined)
             ELSE Went(back, "Error", Undefined)

\* WeixinAdapter.publish
WeixinPublish(a, rt) ==
    LET e == EnsureAuth(a, rt)
        content == ProcessLatex(ContentOf(a.article))
        p == ProcessImages(Logged(e.a, Event("processLatex")), content.images, rt)
        c == CreateFetch(p.a, rt)
    IN  IF e.thrown # NoThrow THEN CaughtPublish(e.a, e.thrown)
        ELSE IF p.thrown # NoThrow THEN CaughtPublish(p.a, p.thrown)
        ELSE IF c.thrown # NoThrow THEN CaughtPublish(c.a, c.thrown)
        ELSE IF c.value = "refused" THEN CaughtPublish(c.a, "Error")
        ELSE Finished(c.a, CreateResult(a.id, TRUE, "appMsgId", "draftUrl", Undefined))

\* JuejinAdapter.getCsrfToken
GetCsrfToken(a, rt) ==
    IF a.cachedCsrfToken THEN Went(Logged(a, Event("csrfToken")), NoThrow, Undefined)
    ELSE LET asked == Logged(a, Event("fetch.csrf"))
         IN  IF Thrown(rt.csrf) # NoThrow THEN Went(asked, Thrown(rt.csrf), Undefined)
             ELSE IF rt.csrf \in {"noHeader", "badFormat"} THEN Went(asked, "Error", Undefined)
             ELSE Went(Logged([asked EXCEPT !.cachedCsrfToken = TRUE], Event("csrfToken")),
                       NoThrow, Undefined)

\* JuejinAdapter.publish
JuejinPublish(a, rt) ==
    LET t == GetCsrfToken(a, rt)
        p == ProcessImages(t.a, ContentOf(a.article).images, rt)
        c == CreateFetch(p.a, rt)
    IN  IF t.thrown # NoThrow THEN CaughtPublish(t.a, t.thrown)
        ELSE IF p.thrown # NoThrow THEN CaughtPublish(p.a, p.thrown)
        ELSE IF c.thrown # NoThrow THEN CaughtPublish(c.a, c.thrown)
        ELSE IF c.value = "refused" THEN CaughtPublish(c.a, "Error")
        ELSE Finished(c.a, CreateResult(a.id, TRUE, "draftId", "draftUrl", Undefined))

\* the catch block of ImoocAdapter.publish
ImoocCaughtPublish(a, rt, thrown) ==
    LET r == RemoveHeaderRules(a, rt)
    IN  IF r.thrown # NoThrow THEN Finished(r.a, Raised(r.thrown))
        ELSE IF thrown = "nullish" THEN Finished(r.a, Raised("TypeError"))
        ELSE Finished(r.a, SyncResult("imooc", FALSE, Undefined, Undefined, "message"))

\* ImoocAdapter.publish
ImoocPublish(a, rt) ==
    LET h == AddHeaderRules(a, rt)
        p == ProcessImages(h.a, ContentOf(a.article).images, rt)
        c == CreateFetch(p.a, rt)
        r == RemoveHeaderRules(c.a, rt)
    IN  IF h.thrown # NoThrow THEN ImoocCaughtPublish(h.a, rt, h.thrown)
        ELSE IF p.thrown # NoThrow THEN ImoocCaughtPublish(p.a, rt, p.thrown)
        ELSE IF c.thrown # NoThrow THEN ImoocCaughtPublish(c.a, rt, c.thrown)
        ELSE IF r.thrown # NoThrow THEN ImoocCaughtPublish(r.a, rt, r.thrown)
        ELSE IF c.value = "refused" THEN ImoocCaughtPublish(r.a, rt, "Error")
        ELSE Finished(r.a, SyncResult("imooc", TRUE, "data", "draftUrl", Undefined))

Publish(a, rt) ==
    IF a.id = "weixin" THEN WeixinPublish(a, rt)
    ELSE IF a.id = "juejin" THEN JuejinPublish(a, rt)
    ELSE ImoocPublish(a, rt)

\* the answers of the runtime that a call of the adapter reads
RuntimesOf(id, method) ==
    IF method = "checkAuth" /\ id # "imooc"
    THEN {[DefaultRuntime EXCEPT !.auth = x] : x \in AuthAnswers}
    ELSE IF method = "checkAuth"
    THEN {[DefaultRuntime EXCEPT !.headerRules = h, !.add = d, !.remove = r,
                                 !.removeAgain = g, !.auth = x] :
            h \in BOOLEAN, d \in {"ok", "rejects"}, r \in Settles, g \in Settles,
            x \in AuthAnswers}
    ELSE IF id = "weixin"
    THEN {[DefaultRuntime EXCEPT !.auth = x, !.upload = u, !.abortOnImage = b, !.create = c] :
            x \in AuthAnswers, u \in UploadAnswers, b \in BOOLEAN, c \in CreateAnswers}
    ELSE IF id = "juejin"
    THEN {[DefaultRuntime EXCEPT !.csrf = t, !.create = c] :
            t \in CsrfAnswers, c \in CreateAnswers}
    ELSE {[DefaultRuntime EXCEPT !.headerRules = h, !.add = d, !.remove = r,
                                 !.removeAgain = g, !.upload = u, !.abortOnImage = b,
                                 !.create = c] :
            h \in BOOLEAN, d \in {"ok", "rejects"}, r \in Settles, g \in Settles,
            u \in UploadAnswers, b \in BOOLEAN, c \in CreateAnswers}

\* ---- one ImoocAdapter instance whose calls interleave (imooc.ts): every call
\* of checkAuth or publish is followed from await to await. headerRuleId is the
\* field of the instance, rules the rules installed in the runtime.
NoRule == 0          \* this.headerRuleId = null
RuleIds == 1..MaxImoocCalls
ImoocMethods == {"checkAuth", "publish"}
ImoocIdle == [method |-> "none", pc |-> "idle", removing |-> NoRule]
ImoocInit ==
    [headerRuleId |-> NoRule, rules |-> {}, issued |-> 0,
     calls |-> [i \in 1..MaxImoocCalls |-> ImoocIdle]]

\* removeHeaderRules, from `await headerRules.remove(id)` resolving: the field
\* is cleared after the await, then the call returns its result. (In publish a
\* missing res.data throws into the catch block, whose removeHeaderRules finds
\* the field null.)
Removed(im, i) ==
    [im EXCEPT !.rules = @ \ {im.calls[i].removing},
               !.headerRuleId = NoRule,
               !.calls[i] = [@ EXCEPT !.pc = "returned", !.removing = NoRule]]

\* removeHeaderRules up to its await: with the field null nothing is removed
\* and the call goes on to `ended`; else remove(this.headerRuleId) is awaited
RemoveAsked(im, i, awaiting, ended) ==
    IF im.headerRuleId = NoRule
    THEN [im EXCEPT !.calls[i] = [@ EXCEPT !.pc = ended]]
    ELSE [im EXCEPT !.calls[i] = [@ EXCEPT !.pc = awaiting,
                                           !.removing = im.headerRuleId]]

\* addHeaderRules, from `await headerRules.add(...)` resolving with a new id
Added(im, i) ==
    [im EXCEPT !.headerRuleId = im.issued + 1,
               !.rules = @ \cup {im.issued + 1},
               !.issued = @ + 1,
               !.calls[i] = [@ EXCEPT !.pc = "body"]]

\* ---------------------------------------------------------------- request signer
\* signAWS4 (part_001). A query string is the sequence of its name=value pieces
\* as written in the url; the clock is fixed.
RawNames == {"a", "b"}
RawValues == {"1", "x+y"}
QueryParams == [name : RawNames, value : RawValues]
QueryStrings == UNION {[1..n -> QueryParams] : n \in 0..MaxParams}

\* new URLSearchParams(queryString): a plus sign of the url is a space
UrlDecoded(text) == IF text = "x+y" THEN "x y" ELSE text
\* encodeURIComponent: a space is written %20
EncodeURIComponent(text) == IF text = "x y" THEN "x%20y" ELSE text
Entries(queryString) ==
    [i \in 1..Len(queryString) |->
        [name |-> UrlDecoded(queryString[i].name), value |-> UrlDecoded(queryString[i].value)]]

\* a[0].localeCompare(b[0]) on the names at hand
NameRank(name) == IF name = "a" THEN 1 ELSE 2
LocaleCompare(x, y) == NameRank(x) - NameRank(y)

\* Array.prototype.sort with that comparator: entries that compare equal keep their order
InsertByName(sorted, e) ==
    LET after == {i \in 1..Len(sorted) : LocaleCompare(sorted[i].name, e.name) > 0}
        at == IF after = {} THEN Len(sorted) + 1
              ELSE CHOOSE i \in after : \A j \in after : i <= j
    IN  SubSeq(sorted, 1, at - 1) \o <<e>> \o SubSeq(sorted, at, Len(sorted))

RECURSIVE SortedParams(_)
SortedParams(entries) ==
    IF entries = <<>> THEN <<>>
    ELSE InsertByName(SortedParams(SubSeq(entries, 1, Len(entries) - 1)),
                      entries[Len(entries)])

\* the pieces k=v of the canonical query string, joined by & in this order
CanonicalQueryString(queryString) ==
    LET sortedParams == SortedParams(Entries(queryString))
    IN  [i \in 1..Len(sortedParams) |->
            [name |-> EncodeURIComponent(sortedParams[i].name),
             value |-> EncodeURIComponent(sortedParams[i].value)]]

\* the digests, told apart by what they were computed from
Sha256(message) == [sha256 |-> message]
HmacSha256(key, message) == [key |-> key, message |-> message]

FixedClock == [amzDate |-> "20240101T000000Z", dateStamp |-> "20240101"]

\* signAWS4 of a GET request on the path /, with the default region and service,
\* no extra headers and an empty body
SignAWS4(queryString) ==
    LET canonicalRequest ==
            [method |-> "GET", path |-> "/",
             canonicalQueryString |-> CanonicalQueryString(queryString),
             canonicalHeaders |-> <<"x-amz-date:20240101T000000Z">>,
             signedHeaderNames |-> "x-amz-date", payloadHash |-> Sha256("")]
        credentialScope == <<FixedClock.dateStamp, "cn-north-1", "imagex", "aws4_request">>
        stringToSign ==
            [algorithm |-> "AWS4-HMAC-SHA256", amzDate |-> FixedClock.amzDate,
             credentialScope |-> credentialScope,
             canonicalRequestHash |-> Sha256(canonicalRequest)]
        kDate == HmacSha256("AWS4secret", FixedClock.dateStamp)
        kRegion == HmacSha256(kDate, "cn-north-1")
        kService == HmacSha256(kRegion, "imagex")
        kSigning == HmacSha256(kService, "aws4_request")
    IN  [authorization |->
            [credential |-> <<"accessKeyId", credentialScope>>,
             signedHeaders |-> "x-amz-date",
             signature |-> HmacSha256(kSigning, stringToSign)],
         amzDate |-> FixedClock.amzDate]

\* two query strings hold the same parameters, each as often as the other
Occurrences(queryString, p) ==
    Cardinality({i \in 1..Len(queryString) : queryString[i] = p})
SameParameters(p, q) ==
    /\ Len(p) = Len(q)
    /\ \A x \in QueryParams : Occurrences(p, x) = Occurrences(q, x)
Reorderings(queryString) ==
    {q \in [1..Len(queryString) -> {queryString[i] : i \in 1..Len(queryString)}] :
        SameParameters(queryString, q)}

SigningInit == [left |-> <<>>, right |-> <<>>, leftSigned |-> <<>>, rightSigned |-> <<>>]

\* ---------------------------------------------------------------- state
VARIABLES
    status, article, platforms, selectedPlatforms, results, error,
    imageProgress, history, recovered,   \* the store (SyncState)
    stSelected, stHistory,               \* chrome.storage.local
    lp, rc, ss, rf,                      \* suspended async actions
    passes,                              \* passes started so far
    sent, lastOp,                        \* what the last step received and dispatched / was
    mcp,                                 \* the MCP client, its sockets and timers
    adapter,                             \* the platform adapters and their last call
    signing,                             \* the urls handed to signAWS4 and their results
    imooc                                \* an ImoocAdapter whose calls interleave

store == <<status, article, platforms, selectedPlatforms, results, error,
           imageProgress, history, recovered>>
storage == <<stSelected, stHistory>>
procs == <<lp, rc, ss, rf>>
vars == <<store, storage, procs, passes, sent, lastOp, mcp, adapter, signing, imooc>>

LPIdle == [pc |-> "idle", preserve |-> FALSE, all |-> <<>>]
SSIdle == [pc |-> "idle", article |-> NoArticle, sel |-> <<>>, dsl |-> <<>>,
           cms |-> <<>>, i |-> 0, all |-> <<>>, unreported |-> {}]
RFIdle == [pc |-> "idle", article |-> NoArticle, before |-> <<>>, failed |-> <<>>,
           success |-> <<>>, dsl |-> <<>>, cms |-> <<>>, i |-> 0, retry |-> <<>>,
           existing |-> <<>>, updated |-> <<>>, unreported |-> {},
           from |-> "idle", histLen |-> 0]

\* number of suspended async actions
InFlight ==
    (IF lp.pc # "idle" THEN 1 ELSE 0) + rc
    + (IF ss.pc # "idle" THEN 1 ELSE 0) + (IF rf.pc # "idle" THEN 1 ELSE 0)

Init ==
    /\ status = "loading"
    /\ article = NoArticle
    /\ platforms = <<>>
    /\ selectedPlatforms = <<>>
    /\ results = <<>>
    /\ error = NoError
    /\ imageProgress = NoProgress
    /\ history = <<>>
    /\ recovered = FALSE
    /\ stSelected \in InitSaved
    /\ stHistory \in InitHistories
    /\ lp = LPIdle
    /\ rc = 0
    /\ ss = SSIdle
    /\ rf = RFIdle
    /\ passes = 0
    /\ sent = {}
    /\ lastOp = "init"
    /\ mcp = McpInit
    /\ adapter = AdapterInit
    /\ signing = SigningInit
    /\ imooc = ImoocInit

\* ---------------------------------------------------------------- recoverSyncState
\* recoverSyncState, not yet recovered, up to its await
RecoverSyncStateCall ==
    /\ ~recovered
    /\ rc' = rc + 1
    /\ sent' = {Msg("GET_SYNC_STATE", <<>>, FALSE)}
    /\ UNCHANGED <<mcp, adapter, signing, imooc>>
    /\ lastOp' = "-"
    /\ UNCHANGED <<store, storage, lp, ss, rf, passes>>

RecoverSyncStateBegin ==
    /\ rc < MaxRecoverCalls
    /\ InFlight < MaxInFlight
    /\ RecoverSyncStateCall

\* recoverSyncState called while an earlier call awaits GET_SYNC_STATE
RecoverSyncStateOverlapping ==
    /\ rc < MaxRecoverOverlap
    /\ RecoverSyncStateCall

RecoverSyncStateApply ==
    \E syncState \in Snapshots :
        /\ rc > 0
        /\ rc' = rc - 1
        /\ status' = syncState.status
        /\ article' = syncState.article
        /\ selectedPlatforms' = syncState.selectedPlatforms
        /\ results' = syncState.results
        /\ recovered' = TRUE
        /\ sent' = {}
        /\ UNCHANGED <<mcp, adapter, signing, imooc>>
        /\ lastOp' = "recoverSyncState.apply"
        /\ UNCHANGED <<platforms, error, imageProgress, history, storage,
                       lp, ss, rf, passes>>

\* no snapshot, or GET_SYNC_STATE rejects
RecoverSyncStateNone ==
    /\ rc > 0
    /\ rc' = rc - 1
    /\ recovered' = TRUE
    /\ sent' = {}
    /\ UNCHANGED <<mcp, adapter, signing, imooc>>
    /\ lastOp' = "-"
    /\ UNCHANGED <<status, article, platforms, selectedPlatforms, results, error,
                   imageProgress, history, storage, lp, ss, rf, passes>>

\* ---------------------------------------------------------------- loadPlatforms
\* loadPlatforms without the preserveStatus test
LoadPlatformsBeginOverwrites ==
    /\ lp.pc = "idle"
    /\ InFlight < MaxInFlight
    /\ lp' = [pc |-> "auth", preserve |-> FALSE, all |-> <<>>]
    /\ status' = "loading"
    /\ sent' = {Msg("CHECK_ALL_AUTH", <<>>, FALSE)}
    /\ UNCHANGED <<mcp, adapter, signing, imooc>>
    /\ lastOp' = "-"
    /\ UNCHANGED <<article, platforms, selectedPlatforms, results, error,
                   imageProgress, history, recovered, storage, rc, ss, rf, passes>>

\* loadPlatforms up to its first await
LoadPlatformsCall ==
    /\ lp.pc = "idle"
    /\ LET preserveStatus == status \in {"syncing", "completed"}
       IN  /\ lp' = [pc |-> "auth", preserve |-> preserveStatus, all |-> <<>>]
           /\ status' = IF preserveStatus THEN status ELSE "loading"
    /\ sent' = {Msg("CHECK_ALL_AUTH", <<>>, FALSE)}
    /\ UNCHANGED <<mcp, adapter, signing, imooc>>
    /\ lastOp' = "-"
    /\ UNCHANGED <<article, platforms, selectedPlatforms, results, error,
                   imageProgress, history, recovered, storage, rc, ss, rf, passes>>

LoadPlatformsBegin ==
    /\ InFlight < MaxInFlight
    /\ LoadPlatformsCall

\* loadPlatforms called while other calls are suspended
LoadPlatformsOverlapping ==
    /\ InFlight < MaxOverlap
    /\ LoadPlatformsCall

\* Promise.all([CHECK_ALL_AUTH, storage.get('cmsAccounts')]) resolves
LoadPlatformsAuthResolve ==
    \E answer \in PlatformAnswers :
        /\ lp.pc = "auth"
        /\ lp' = [lp EXCEPT !.pc = "saved",
                            !.all = BuildPlatforms(answer[1], answer[2])]
        /\ sent' = {}
        /\ UNCHANGED <<mcp, adapter, signing, imooc>>
        /\ lastOp' = "-"
        /\ UNCHANGED <<store, storage, rc, ss, rf, passes>>

\* Promise.all rejects: the catch block
LoadPlatformsReject ==
    /\ lp.pc = "auth"
    /\ lp' = LPIdle
    /\ IF lp.preserve
         THEN UNCHANGED <<status, error>>
         ELSE status' = "idle" /\ error' = ErrInfra
    /\ sent' = {}
    /\ UNCHANGED <<mcp, adapter, signing, imooc>>
    /\ lastOp' = "loadPlatforms.catch"
    /\ UNCHANGED <<article, platforms, selectedPlatforms, results, imageProgress,
                   history, recovered, storage, rc, ss, rf, passes>>

\* loadSelectedPlatforms() resolves (it never rejects); the final set()
LoadPlatformsDone ==
    /\ lp.pc = "saved"
    /\ lp' = LPIdle
    /\ platforms' = lp.all
    /\ IF lp.preserve
         THEN UNCHANGED <<status, selectedPlatforms>>
         ELSE /\ status' = "idle"
              /\ selectedPlatforms' = FilterSaved(stSelected, lp.all)
    /\ sent' = {}
    /\ UNCHANGED <<mcp, adapter, signing, imooc>>
    /\ lastOp' = "loadPlatforms.done"
    /\ UNCHANGED <<article, results, error, imageProgress, history, recovered,
                   storage, rc, ss, rf, passes>>

\* ---------------------------------------------------------------- loadArticle
\* The handler keeps nothing across its awaits but the guard it passed, and no
\* other action of the store writes `article` to a different value in between
\* once it is set, so its body is one step: a pending or extracted article is found
LoadArticleFound ==
    \E a \in Articles :
        /\ ~(article # NoArticle /\ status \in {"syncing", "completed"})
        /\ article' = a
        /\ sent' = {}
        /\ UNCHANGED <<mcp, adapter, signing, imooc>>
        /\ lastOp' = "-"
        /\ UNCHANGED <<status, platforms, selectedPlatforms, results, error,
                       imageProgress, history, recovered, storage, procs, passes>>

\* ---------------------------------------------------------------- loadHistory
\* loadHistory that adds what it read to what it holds
LoadHistoryAppends ==
    /\ history' = stHistory \o history
    /\ sent' = {}
    /\ UNCHANGED <<mcp, adapter, signing, imooc>>
    /\ lastOp' = "-"
    /\ UNCHANGED <<status, article, platforms, selectedPlatforms, results, error,
                   imageProgress, recovered, storage, procs, passes>>

LoadHistory ==
    /\ history' = stHistory
    /\ sent' = {}
    /\ UNCHANGED <<mcp, adapter, signing, imooc>>
    /\ lastOp' = "-"
    /\ UNCHANGED <<status, article, platforms, selectedPlatforms, results, error,
                   imageProgress, recovered, storage, procs, passes>>

\* ---------------------------------------------------------------- selection
TogglePlatform ==
    \E platformId \in Ids :
        /\ selectedPlatforms' = Toggled(selectedPlatforms, platformId)
        /\ stSelected' = selectedPlatforms'
        /\ sent' = {}
        /\ UNCHANGED <<mcp, adapter, signing, imooc>>
        /\ lastOp' = "togglePlatform"
        /\ UNCHANGED <<status, article, platforms, results, error, imageProgress,
                       history, recovered, stHistory, procs, passes>>

SelectAll ==
    /\ selectedPlatforms' = AuthenticatedIds(platforms)
    /\ stSelected' = selectedPlatforms'
    /\ sent' = {}
    /\ UNCHANGED <<mcp, adapter, signing, imooc>>
    /\ lastOp' = "selectAll"
    /\ UNCHANGED <<status, article, platforms, results, error, imageProgress,
                   history, recovered, stHistory, procs, passes>>

DeselectAll ==
    /\ selectedPlatforms' = <<>>
    /\ stSelected' = <<>>
    /\ sent' = {}
    /\ UNCHANGED <<mcp, adapter, signing, imooc>>
    /\ lastOp' = "deselectAll"
    /\ UNCHANGED <<status, article, platforms, results, error, imageProgress,
                   history, recovered, stHistory, procs, passes>>

\* ---------------------------------------------------------------- checkRateLimit
\* answers of checkSyncFrequency(selectedPlatforms): a warning or null
RateLimitAnswers == {"tooSoon", "ok"}

\* checkRateLimit that records the warning as the store's error
CheckRateLimitSetsError ==
    \E answer \in RateLimitAnswers :
        /\ error' = IF answer = "tooSoon" THEN "too soon" ELSE error
        /\ sent' = {}
        /\ UNCHANGED <<mcp, adapter, signing, imooc>>
        /\ lastOp' = IF answer = "tooSoon" THEN "checkRateLimit.tooSoon"
                                          ELSE "checkRateLimit.ok"
        /\ UNCHANGED <<status, article, platforms, selectedPlatforms, results,
                       imageProgress, history, recovered, storage, procs, passes>>

\* checkRateLimit: reads the selection and returns the collaborator's answer
CheckRateLimit ==
    \E answer \in RateLimitAnswers :
        /\ sent' = {}
        /\ UNCHANGED <<mcp, adapter, signing, imooc>>
        /\ lastOp' = IF answer = "tooSoon" THEN "checkRateLimit.tooSoon"
                                          ELSE "checkRateLimit.ok"
        /\ UNCHANGED <<store, storage, procs, passes>>

\* ---------------------------------------------------------------- publish passes
\* where a pass goes once the batch (k = 0) or the k-th cms request is settled:
\* the next SYNC_TO_CMS request, or the read of storage.syncHistory
NextPc(cms, k) == IF k < Len(cms) THEN "cms" ELSE "hist"

\* all SYNC_TO_CMS requests dispatched at once
NextSentAll(cms, k) ==
    IF k = 0 THEN {Msg("SYNC_TO_CMS", <<cms[j]>>, FALSE) : j \in 1..Len(cms)} ELSE {}

NextSent(cms, k) ==
    IF k < Len(cms) THEN {Msg("SYNC_TO_CMS", <<cms[k + 1]>>, FALSE)} ELSE {}

\* the first request of a pass over dsl and cms ids
FirstPc(dsl, cms) == IF Len(dsl) > 0 THEN "batch" ELSE NextPc(cms, 0)
FirstSent(dsl, cms, skipHistory) ==
    IF Len(dsl) > 0 THEN {Msg("SYNC_ARTICLE", dsl, skipHistory)} ELSE NextSent(cms, 0)
FirstIndex(dsl, cms) == IF Len(dsl) = 0 /\ Len(cms) > 0 THEN 1 ELSE 0

\* ---------------------------------------------------------------- startSync
\* startSync that resets the result list before validating
StartSyncInvalidClears ==
    /\ article = NoArticle \/ Len(selectedPlatforms) = 0
    /\ error' = IF article = NoArticle THEN ErrNoArticle ELSE ErrNoPlatform
    /\ results' = <<>>
    /\ sent' = {}
    /\ UNCHANGED <<mcp, adapter, signing, imooc>>
    /\ lastOp' = "startSync.invalid"
    /\ UNCHANGED <<status, article, platforms, selectedPlatforms,
                   imageProgress, history, recovered, storage, procs, passes>>

StartSyncInvalid ==
    /\ article = NoArticle \/ Len(selectedPlatforms) = 0
    /\ error' = IF article = NoArticle THEN ErrNoArticle ELSE ErrNoPlatform
    /\ sent' = {}
    /\ UNCHANGED <<mcp, adapter, signing, imooc>>
    /\ lastOp' = "startSync.invalid"
    /\ UNCHANGED <<status, article, platforms, selectedPlatforms, results,
                   imageProgress, history, recovered, storage, procs, passes>>

\* startSync, given an article and a selection, up to its first await
StartSyncCall ==
    /\ ss.pc = "idle"
    /\ passes < MaxPasses
    /\ article # NoArticle
    /\ Len(selectedPlatforms) # 0
    /\ LET dslPlatformIds == OfKind(selectedPlatforms, platforms, "dsl")
           cmsPlatformIds == OfKind(selectedPlatforms, platforms, "cms")
       IN  /\ ss' = [pc |-> FirstPc(dslPlatformIds, cmsPlatformIds),
                     article |-> article, sel |-> selectedPlatforms,
                     dsl |-> dslPlatformIds, cms |-> cmsPlatformIds,
                     i |-> FirstIndex(dslPlatformIds, cmsPlatformIds), all |-> <<>>,
                     unreported |-> Range(dslPlatformIds)]
           /\ sent' = FirstSent(dslPlatformIds, cmsPlatformIds, FALSE)
    /\ status' = "syncing"
    /\ results' = <<>>
    /\ error' = NoError
    /\ imageProgress' = NoProgress
    /\ passes' = passes + 1
    /\ UNCHANGED <<mcp, adapter, signing, imooc>>
    /\ lastOp' = "startSync"
    /\ UNCHANGED <<article, platforms, selectedPlatforms, history, recovered,
                   storage, lp, rc, rf>>

StartSyncBegin ==
    /\ InFlight < MaxInFlight
    /\ StartSyncCall

\* startSync called while other calls are suspended
StartSyncOverlapping ==
    /\ InFlight < MaxOverlap
    /\ StartSyncCall

\* SYNC_ARTICLE answered with results; the background has saved the history entry
StartSyncBatchResolve ==
    \E rs \in BatchResults(ss.dsl) :
        /\ ss.pc = "batch"
        /\ ss' = [ss EXCEPT !.pc = NextPc(ss.cms, 0), !.i = 1, !.all = ss.all \o rs,
                            !.unreported = {}]
        /\ stHistory' = BackgroundSaveHistory(stHistory,
                                              HistoryItem(SaveId(stHistory), ss.article, rs))
        /\ sent' = NextSent(ss.cms, 0)
        /\ UNCHANGED <<mcp, adapter, signing, imooc>>
        /\ lastOp' = "-"
        /\ UNCHANGED <<store, stSelected, lp, rc, rf, passes>>

\* SYNC_ARTICLE answered without results ({error})
StartSyncBatchNoResults ==
    /\ ss.pc = "batch"
    /\ ss' = [ss EXCEPT !.pc = NextPc(ss.cms, 0), !.i = 1, !.unreported = {}]
    /\ sent' = NextSent(ss.cms, 0)
    /\ UNCHANGED <<mcp, adapter, signing, imooc>>
    /\ lastOp' = "-"
    /\ UNCHANGED <<store, storage, lp, rc, rf, passes>>

\* the catch block of startSync
StartSyncCatch ==
    /\ error' = ErrInfra
    /\ status' = "idle"
    /\ imageProgress' = NoProgress
    /\ ss' = SSIdle
    /\ sent' = {}
    /\ UNCHANGED <<mcp, adapter, signing, imooc>>
    /\ lastOp' = "startSync.catch"
    /\ UNCHANGED <<article, platforms, selectedPlatforms, results, history,
                   recovered, storage, lp, rc, rf, passes>>

\* SYNC_ARTICLE rejects
StartSyncBatchReject == ss.pc = "batch" /\ StartSyncCatch

\* allResults.push(...) for the account being published, then the next request
StartSyncCmsPush(success) ==
    /\ ss' = [ss EXCEPT !.pc = NextPc(ss.cms, ss.i), !.i = ss.i + 1,
                        !.all = Append(ss.all, Result(ss.cms[ss.i], success, FALSE))]
    /\ sent' = NextSent(ss.cms, ss.i)
    /\ UNCHANGED <<store, storage, lp, rc, rf, passes>>

\* SYNC_TO_CMS answered: response.success tells whether the publish worked
StartSyncCmsResolve ==
    \E success \in BOOLEAN :
        ss.pc = "cms" /\ StartSyncCmsPush(success) /\ lastOp' = "startSync.cms" /\ UNCHANGED <<mcp, adapter, signing, imooc>>

\* a rejected SYNC_TO_CMS that reaches the outer catch block
StartSyncCmsRejectAborts == ss.pc = "cms" /\ StartSyncCatch

\* SYNC_TO_CMS rejects: the inner catch pushes a failed result
StartSyncCmsReject ==
    ss.pc = "cms" /\ StartSyncCmsPush(FALSE) /\ lastOp' = "startSync.cms.reject" /\ UNCHANGED <<mcp, adapter, signing, imooc>>

\* the end of startSync without the final set() of status
StartSyncDoneStaysSyncing ==
    /\ ss.pc = "hist"
    /\ results' = WithNames(ss.all)
    /\ history' = stHistory
    /\ imageProgress' = NoProgress
    /\ ss' = SSIdle
    /\ sent' = {}
    /\ UNCHANGED <<mcp, adapter, signing, imooc>>
    /\ lastOp' = "startSync.done"
    /\ UNCHANGED <<status, article, platforms, selectedPlatforms, error, recovered,
                   storage, lp, rc, rf, passes>>

\* storage.get('syncHistory') resolves: the pass completes
StartSyncDone ==
    /\ ss.pc = "hist"
    /\ status' = "completed"
    /\ results' = WithNames(ss.all)
    /\ history' = stHistory
    /\ imageProgress' = NoProgress
    /\ ss' = SSIdle
    /\ sent' = {}
    /\ UNCHANGED <<mcp, adapter, signing, imooc>>
    /\ lastOp' = "startSync.done"
    /\ UNCHANGED <<article, platforms, selectedPlatforms, error, recovered, storage,
                   lp, rc, rf, passes>>

\* storage.get('syncHistory') rejects
StartSyncHistReject == ss.pc = "hist" /\ StartSyncCatch

\* ---------------------------------------------------------------- retryFailed
RetryFailedNoArticle ==
    /\ article = NoArticle
    /\ error' = ErrNoArticle
    /\ sent' = {}
    /\ UNCHANGED <<mcp, adapter, signing, imooc>>
    /\ lastOp' = "retryFailed.invalid"
    /\ UNCHANGED <<status, article, platforms, selectedPlatforms, results,
                   imageProgress, history, recovered, storage, procs, passes>>

\* nothing failed: plain return
RetryFailedNothing ==
    /\ article # NoArticle
    /\ Len(FailedPlatformIds(results)) = 0
    /\ sent' = {}
    /\ UNCHANGED <<mcp, adapter, signing, imooc>>
    /\ lastOp' = "retryFailed.nothing"
    /\ UNCHANGED <<store, storage, procs, passes>>

\* retryFailed, given an article and a failed result, up to its first await
RetryFailedCall ==
    /\ rf.pc = "idle"
    /\ passes < MaxPasses
    /\ article # NoArticle
    /\ Len(FailedPlatformIds(results)) # 0
    /\ LET failedPlatformIds == FailedPlatformIds(results)
           successResults == SuccessResults(results)
           dslPlatformIds == OfKind(failedPlatformIds, platforms, "dsl")
           cmsPlatformIds == OfKind(failedPlatformIds, platforms, "cms")
       IN  /\ rf' = [pc |-> FirstPc(dslPlatformIds, cmsPlatformIds),
                     article |-> article, before |-> results,
                     failed |-> failedPlatformIds, success |-> successResults,
                     dsl |-> dslPlatformIds, cms |-> cmsPlatformIds,
                     i |-> FirstIndex(dslPlatformIds, cmsPlatformIds),
                     retry |-> <<>>, existing |-> <<>>, updated |-> <<>>,
                     unreported |-> Range(dslPlatformIds),
                     from |-> status, histLen |-> Len(history)]
           /\ sent' = FirstSent(dslPlatformIds, cmsPlatformIds, TRUE)
           /\ results' = successResults
    /\ status' = "syncing"
    /\ error' = NoError
    /\ imageProgress' = NoProgress
    /\ passes' = passes + 1
    /\ UNCHANGED <<mcp, adapter, signing, imooc>>
    /\ lastOp' = "retryFailed"
    /\ UNCHANGED <<article, platforms, selectedPlatforms, history, recovered,
                   storage, lp, rc, ss>>

RetryFailedBegin ==
    /\ InFlight < MaxInFlight
    /\ RetryFailedCall

\* retryFailed called while other calls are suspended
RetryFailedOverlapping ==
    /\ InFlight < MaxOverlap
    /\ RetryFailedCall

\* SYNC_ARTICLE (skipHistory) answered with results
RetryFailedBatchResolve ==
    \E rs \in BatchResults(rf.dsl) :
        /\ rf.pc = "batch"
        /\ rf' = [rf EXCEPT !.pc = NextPc(rf.cms, 0), !.i = 1, !.retry = rf.retry \o rs,
                            !.unreported = {}]
        /\ sent' = NextSent(rf.cms, 0)
        /\ UNCHANGED <<mcp, adapter, signing, imooc>>
        /\ lastOp' = "-"
        /\ UNCHANGED <<store, storage, lp, rc, ss, passes>>

RetryFailedBatchNoResults ==
    /\ rf.pc = "batch"
    /\ rf' = [rf EXCEPT !.pc = NextPc(rf.cms, 0), !.i = 1, !.unreported = {}]
    /\ sent' = NextSent(rf.cms, 0)
    /\ UNCHANGED <<mcp, adapter, signing, imooc>>
    /\ lastOp' = "-"
    /\ UNCHANGED <<store, storage, lp, rc, ss, passes>>

\* the catch block of retryFailed
RetryFailedCatch ==
    /\ error' = ErrInfra
    /\ status' = "completed"
    /\ imageProgress' = NoProgress
    /\ rf' = RFIdle
    /\ sent' = {}
    /\ UNCHANGED <<mcp, adapter, signing, imooc>>
    /\ lastOp' = "retryFailed.catch"
    /\ UNCHANGED <<article, platforms, selectedPlatforms, results, history,
                   recovered, storage, lp, rc, ss, passes>>

RetryFailedBatchReject == rf.pc = "batch" /\ RetryFailedCatch

RetryFailedCmsPush(success) ==
    /\ rf' = [rf EXCEPT !.pc = NextPc(rf.cms, rf.i), !.i = rf.i + 1,
                        !.retry = Append(rf.retry, Result(rf.cms[rf.i], success, FALSE))]
    /\ sent' = NextSent(rf.cms, rf.i)
    /\ UNCHANGED <<store, storage, lp, rc, ss, passes>>

RetryFailedCmsResolve ==
    \E success \in BOOLEAN :
        rf.pc = "cms" /\ RetryFailedCmsPush(success) /\ lastOp' = "retryFailed.cms" /\ UNCHANGED <<mcp, adapter, signing, imooc>>

RetryFailedCmsReject ==
    rf.pc = "cms" /\ RetryFailedCmsPush(FALSE) /\ lastOp' = "retryFailed.cms.reject" /\ UNCHANGED <<mcp, adapter, signing, imooc>>

\* [...successResults, ...retryResultsWithNames]
RetryAllResults(successResults, retryResults) ==
    successResults \o WithNames(retryResults)

\* the final set() of retryFailed
RetryFailedComplete ==
    /\ status' = "completed"
    /\ results' = RetryAllResults(rf.success, rf.retry)
    /\ imageProgress' = NoProgress
    /\ rf' = RFIdle
    /\ sent' = {}
    /\ UNCHANGED <<article, platforms, selectedPlatforms, error, recovered,
                   stSelected, lp, rc, ss, passes>>

\* storage.get('syncHistory') resolves with entries: the write is issued
RetryFailedHistResolve ==
    /\ rf.pc = "hist"
    /\ Len(stHistory) > 0
    /\ rf' = [rf EXCEPT !.pc = "write", !.existing = stHistory,
                        !.updated = UpdateFirst(stHistory,
                                                RetryAllResults(rf.success, rf.retry))]
    /\ sent' = {}
    /\ UNCHANGED <<mcp, adapter, signing, imooc>>
    /\ lastOp' = "-"
    /\ UNCHANGED <<store, storage, lp, rc, ss, passes>>

\* storage.get('syncHistory') resolves empty: no history update
RetryFailedDoneNoHistory ==
    /\ rf.pc = "hist"
    /\ Len(stHistory) = 0
    /\ RetryFailedComplete
    /\ UNCHANGED <<mcp, adapter, signing, imooc>>
    /\ lastOp' = "retryFailed.done"
    /\ UNCHANGED <<history, stHistory>>

\* storage.set({syncHistory}) resolves
RetryFailedDone ==
    /\ rf.pc = "write"
    /\ stHistory' = rf.updated
    /\ history' = rf.updated
    /\ RetryFailedComplete
    /\ UNCHANGED <<mcp, adapter, signing, imooc>>
    /\ lastOp' = "retryFailed.done"

\* storage.get or storage.set rejects
RetryFailedStorageReject == rf.pc \in {"hist", "write"} /\ RetryFailedCatch

\* ---------------------------------------------------------------- reset
\* reset that also drops the selection
ResetDropsSelection ==
    /\ status' = "idle"
    /\ results' = <<>>
    /\ error' = NoError
    /\ imageProgress' = NoProgress
    /\ selectedPlatforms' = <<>>
    /\ sent' = {Msg("CLEAR_SYNC_STATE", <<>>, FALSE)}
    /\ UNCHANGED <<mcp, adapter, signing, imooc>>
    /\ lastOp' = "reset"
    /\ UNCHANGED <<article, platforms, history, recovered, storage, procs, passes>>

Reset ==
    /\ status' = "idle"
    /\ results' = <<>>
    /\ error' = NoError
    /\ imageProgress' = NoProgress
    /\ sent' = {Msg("CLEAR_SYNC_STATE", <<>>, FALSE)}
    /\ UNCHANGED <<mcp, adapter, signing, imooc>>
    /\ lastOp' = "reset"
    /\ UNCHANGED <<article, platforms, selectedPlatforms, history, recovered,
                   storage, procs, passes>>

\* ---------------------------------------------------------------- onMessage listener
\* updateProgress that puts the result in front
UpdateProgressPrepends(result) ==
    /\ results' = <<result>> \o results
    /\ UNCHANGED <<status, article, platforms, selectedPlatforms, error,
                   imageProgress, history, recovered>>

\* updateProgress(result): results: [...state.results, result]
UpdateProgress(result) ==
    /\ results' = Append(results, result)
    /\ UNCHANGED <<status, article, platforms, selectedPlatforms, error,
                   imageProgress, history, recovered>>

\* SYNC_PROGRESS from the batch of the startSync pass in flight
StartSyncProgress ==
    \E result \in ProgressResults(ss.unreported) :
        /\ ss.pc = "batch"
        /\ UpdateProgress(result)
        /\ ss' = [ss EXCEPT !.unreported = ss.unreported \ {result.platform}]
        /\ sent' = {}
        /\ UNCHANGED <<mcp, adapter, signing, imooc>>
        /\ lastOp' = "-"
        /\ UNCHANGED <<storage, lp, rc, rf, passes>>

\* SYNC_PROGRESS from the batch of the retryFailed pass in flight
RetryFailedProgress ==
    \E result \in ProgressResults(rf.unreported) :
        /\ rf.pc = "batch"
        /\ UpdateProgress(result)
        /\ rf' = [rf EXCEPT !.unreported = rf.unreported \ {result.platform}]
        /\ sent' = {}
        /\ UNCHANGED <<mcp, adapter, signing, imooc>>
        /\ lastOp' = "-"
        /\ UNCHANGED <<storage, lp, rc, ss, passes>>

\* the platforms of the publish request that a pass is waiting for
Requested(p) ==
    IF p.pc = "batch" THEN Range(p.dsl)
    ELSE IF p.pc = "cms" THEN {p.cms[p.i]} ELSE {}

\* IMAGE_PROGRESS (or its clearing) while a publish request is being processed
UpdateImageProgress ==
    \E progress \in ImageEvents :
        /\ Requested(ss) \cup Requested(rf) # {}
        /\ progress.platform \in Requested(ss) \cup Requested(rf) \cup {"null"}
        /\ imageProgress' = progress
        /\ sent' = {}
        /\ UNCHANGED <<mcp, adapter, signing, imooc>>
        /\ lastOp' = "-"
        /\ UNCHANGED <<status, article, platforms, selectedPlatforms, results, error,
                       history, recovered, storage, procs, passes>>

\* ---------------------------------------------------------------- other clients
\* a sync triggered over the control channel: the background saves its history
\* entry; its SYNC_PROGRESS event may reach the listener of the store
ExternalSync ==
    \E rs \in BatchResults(<<"d1">>), heard \in BOOLEAN :
        /\ passes < MaxPasses
        /\ passes' = passes + 1
        /\ stHistory' = BackgroundSaveHistory(stHistory,
                                              HistoryItem(SaveId(stHistory), "mcp", rs))
        /\ IF heard THEN UpdateProgress(rs[1]) ELSE UNCHANGED store
        /\ sent' = {}
        /\ UNCHANGED <<mcp, adapter, signing, imooc>>
        /\ lastOp' = "externalSync"
        /\ UNCHANGED <<stSelected, procs>>

\* ---------------------------------------------------------------- MCP client steps
\* a step of the MCP client leaves the popup store alone
McpStep(op) ==
    /\ sent' = {}
    /\ lastOp' = op
    /\ UNCHANGED <<store, storage, procs, passes, adapter, signing, imooc>>

\* connect(), called by startMcpClient
McpConnect ==
    \E constructed \in BOOLEAN :
        /\ constructed => CanConstruct(mcp)
        /\ mcp' = Connect(mcp, constructed)
        /\ McpStep(IF IsConnected(mcp) \/ constructed
                   THEN "mcp.connect" ELSE "mcp.connect.catch")

\* disconnect(), called by stopMcpClient
McpDisconnect ==
    /\ mcp' = Disconnect(mcp)
    /\ McpStep("mcp.disconnect")

\* resetReconnect(), the manual retry
McpResetReconnect ==
    \E constructed \in BOOLEAN :
        /\ constructed => CanConstruct(mcp)
        /\ mcp' = ResetReconnect(mcp, constructed)
        /\ McpStep(IF IsConnected(mcp) \/ constructed
                   THEN "mcp.resetReconnect" ELSE "mcp.resetReconnect.catch")

\* a pending timeout expires and runs its callback; its handle is not handed
\* out again while the callback runs
TimerFires ==
    \E t \in mcp.timers, constructed \in BOOLEAN :
            /\ constructed => CanConstruct([mcp EXCEPT !.reconnectTimer = NoTimer])
            /\ mcp' = [TimerCallback(mcp, constructed) EXCEPT !.timers = @ \ {t}]
            /\ McpStep(IF IsConnected(mcp) \/ constructed
                       THEN "mcp.timer" ELSE "mcp.timer.catch")

\* the server accepts a connecting socket: open event
SocketOpens ==
    \E s \in SocketIds :
        /\ mcp.sockets[s].readyState = "CONNECTING"
        /\ LET m == [mcp EXCEPT !.sockets[s].readyState = "OPEN"]
           IN  mcp' = IF mcp.sockets[s].onopen THEN OnOpen(m) ELSE m
        /\ McpStep(IF mcp.sockets[s].onopen THEN "mcp.onopen" ELSE "mcp.opened")

\* the peer starts the closing handshake of an open socket
SocketClosing ==
    \E s \in SocketIds :
        /\ mcp.sockets[s].readyState = "OPEN"
        /\ mcp' = [mcp EXCEPT !.sockets[s].readyState = "CLOSING"]
        /\ McpStep("mcp.closing")

\* an error event on a live socket; onerror only logs
SocketErrors ==
    \E s \in SocketIds :
        /\ mcp.sockets[s].readyState \in {"CONNECTING", "OPEN"}
        /\ mcp.sockets[s].onerror
        /\ UNCHANGED <<mcp, adapter, signing, imooc>>
        /\ McpStep("mcp.onerror")

\* a socket is closed (refused, lost, or its handshake done): close event
SocketCloses ==
    \E s \in SocketIds :
        /\ mcp.sockets[s].readyState \in {"CONNECTING", "OPEN", "CLOSING"}
        /\ LET m == [mcp EXCEPT !.sockets[s] = ClosedSocket,
                                !.calls = SocketGone(@, s)]
           IN  mcp' = IF mcp.sockets[s].onclose THEN OnClose(m) ELSE m
        /\ McpStep(IF mcp.sockets[s].onclose THEN "mcp.onclose" ELSE "mcp.closed")

\* setToken(token)
McpSetToken ==
    \E token \in Tokens :
        /\ mcp' = [mcp EXCEPT !.token = token]
        /\ McpStep("mcp.setToken")

\* clearToken()
McpClearToken ==
    /\ mcp' = [mcp EXCEPT !.token = NoToken]
    /\ McpStep("mcp.clearToken")

\* a message event of an open socket, delivered to ws.onmessage
ReceiveMessage ==
    \E s \in SocketIds, data \in Datas :
        /\ mcp.sockets[s].readyState = "OPEN"
        /\ mcp.sockets[s].onmessage
        \* a request that is dispatched carries an id no pending request has
        /\ Verdict(mcp.token, data) = "mcp.msg.dispatch"
              => /\ Cardinality(mcp.calls) < MaxCalls
                 /\ \A c \in mcp.calls : c.id # data.id
        /\ mcp' = HandleMessage(mcp, data)
        /\ sent' = HandleMessageEffects(mcp, data)
                     \cup {[type |-> "request", data |-> data]}
        /\ lastOp' = Verdict(mcp.token, data)
        /\ UNCHANGED <<store, storage, procs, passes, adapter, signing, imooc>>

\* the collaborator a request awaits answers; handleMessage goes on
MethodResolves ==
    \E c \in mcp.calls :
        \E answer \in Answers(c.call) :
            /\ mcp' = Resumed(mcp, c, answer)
            /\ sent' = ResumedEffects(mcp, c, answer)
            /\ lastOp' = IF NextCall(c.call, answer) # Undefined
                         THEN "mcp.msg.next" ELSE "mcp.msg.done"
            /\ UNCHANGED <<store, storage, procs, passes, adapter, signing, imooc>>

\* ---------------------------------------------------------------- adapter and signer steps
\* a call of an adapter or of the signer leaves the popup store and the MCP client alone
AdapterStep(op) ==
    /\ sent' = {}
    /\ lastOp' = op
    /\ UNCHANGED <<store, storage, procs, passes, mcp, signing, imooc>>

\* checkAuth() of one of the adapters, answered by the runtime
AdapterCheckAuth ==
    \E id \in AdapterIds :
        \E rt \in RuntimesOf(id, "checkAuth") :
            /\ adapter' = CheckAuth(Called(adapter, id, "checkAuth", NoAdapterArticle), rt)
            /\ AdapterStep("adapter.checkAuth")

\* publish(article) of one of the adapters, answered by the runtime
AdapterPublish ==
    \E id \in AdapterIds, post \in AdapterArticles :
        \E rt \in RuntimesOf(id, "publish") :
            \* the spans between dollar signs are read by WeixinAdapter only
            /\ id # "weixin" => post.spans = <<>>
            /\ adapter' = Publish(Called(adapter, id, "publish", post), rt)
            /\ AdapterStep("adapter.publish")

SignerStep(op) ==
    /\ sent' = {}
    /\ lastOp' = op
    /\ UNCHANGED <<store, storage, procs, passes, mcp, adapter, imooc>>

\* two urls that differ in the order of their query parameters are to be
\* signed, once the pair before them has been
SignerReceives ==
    \E left \in QueryStrings :
        \E right \in Reorderings(left) :
            /\ signing = SigningInit \/ (signing.leftSigned # <<>> /\ signing.rightSigned # <<>>)
            /\ signing' = [left |-> left, right |-> right,
                           leftSigned |-> <<>>, rightSigned |-> <<>>]
            /\ SignerStep("sign.receive")

SignLeft ==
    /\ signing.leftSigned = <<>>
    /\ lastOp \in {"sign.receive", "sign.right"}
    /\ signing' = [signing EXCEPT !.leftSigned = <<SignAWS4(signing.left)>>]
    /\ SignerStep("sign.left")

SignRight ==
    /\ signing.rightSigned = <<>>
    /\ lastOp \in {"sign.receive", "sign.left"}
    /\ signing' = [signing EXCEPT !.rightSigned = <<SignAWS4(signing.right)>>]
    /\ SignerStep("sign.right")

\* ---------------------------------------------------------------- interleaved imooc calls
ImoocStep(op) ==
    /\ sent' = {}
    /\ lastOp' = op
    /\ UNCHANGED <<store, storage, procs, passes, mcp, adapter, signing>>

\* checkAuth() or publish(article) is called: it awaits addHeaderRules
ImoocCall ==
    \E i \in 1..MaxImoocCalls, method \in ImoocMethods :
        /\ imooc.calls[i].pc = "idle"
        /\ \A j \in 1..(i - 1) : imooc.calls[j].pc # "idle"
        /\ imooc' = [imooc EXCEPT !.calls[i] = [@ EXCEPT !.method = method,
                                                         !.pc = "add"]]
        /\ ImoocStep("imooc.call")

\* headerRules.add resolves
ImoocAddResolves ==
    \E i \in 1..MaxImoocCalls :
        /\ imooc.calls[i].pc = "add"
        /\ imooc' = Added(imooc, i)
        /\ ImoocStep("imooc.added")

\* headerRules.add rejects: the catch block awaits removeHeaderRules
ImoocAddRejects ==
    \E i \in 1..MaxImoocCalls :
        /\ imooc.calls[i].pc = "add"
        /\ imooc' = RemoveAsked(imooc, i, "catchRemove", "returned")
        /\ ImoocStep("imooc.add.catch")

\* the requests of the call have answered: removeHeaderRules in the try block
ImoocBodyResolves ==
    \E i \in 1..MaxImoocCalls :
        /\ imooc.calls[i].pc = "body"
        /\ imooc' = RemoveAsked(imooc, i, "remove", "returned")
        /\ ImoocStep("imooc.body")

\* a request of the call rejects or its answer does not parse: the catch block
ImoocBodyThrows ==
    \E i \in 1..MaxImoocCalls :
        /\ imooc.calls[i].pc = "body"
        /\ imooc' = RemoveAsked(imooc, i, "catchRemove", "returned")
        /\ ImoocStep("imooc.body.catch")

\* headerRules.remove resolves
ImoocRemoveResolves ==
    \E i \in 1..MaxImoocCalls :
        /\ imooc.calls[i].pc \in {"remove", "catchRemove"}
        /\ imooc' = Removed(imooc, i)
        /\ ImoocStep("imooc.removed")

\* headerRules.remove rejects: in the try block the catch block asks again, in
\* the catch block the call rejects
ImoocRemoveRejects ==
    \E i \in 1..MaxImoocCalls :
        /\ imooc.calls[i].pc \in {"remove", "catchRemove"}
        /\ imooc' = IF imooc.calls[i].pc = "remove"
                     THEN RemoveAsked(imooc, i, "catchRemove", "returned")
                     ELSE [imooc EXCEPT !.calls[i] = [@ EXCEPT !.pc = "raised"]]
        /\ ImoocStep("imooc.remove.catch")

\* ---------------------------------------------------------------- specification
\* the calls a popup makes when it opens
Bootstrap ==
    \/ RecoverSyncStateBegin \/ RecoverSyncStateApply \/ RecoverSyncStateNone
    \/ LoadPlatformsBegin \/ LoadPlatformsAuthResolve \/ LoadPlatformsReject
    \/ LoadPlatformsDone
    \/ LoadArticleFound
    \/ LoadHistory

\* a publish pass, its retry, reset and the events of the background
Pass ==
    \/ StartSyncInvalid \/ StartSyncBegin \/ StartSyncBatchResolve
    \/ StartSyncBatchNoResults \/ StartSyncBatchReject \/ StartSyncCmsResolve \/ StartSyncCmsReject
    \/ StartSyncDone \/ StartSyncHistReject
    \/ RetryFailedNoArticle \/ RetryFailedNothing \/ RetryFailedBegin
    \/ RetryFailedBatchResolve \/ RetryFailedBatchNoResults \/ RetryFailedBatchReject
    \/ RetryFailedCmsResolve \/ RetryFailedCmsReject \/ RetryFailedHistResolve \/ RetryFailedDoneNoHistory
    \/ RetryFailedDone \/ RetryFailedStorageReject
    \/ Reset
    \/ StartSyncProgress \/ RetryFailedProgress \/ UpdateImageProgress

Next == Bootstrap \/ Pass \/ ExternalSync \/ TogglePlatform \/ SelectAll \/ DeselectAll

Spec == Init /\ [][Next]_vars

\* The interleavings of bootstrap, passes, retry, reset and background events; the
\* selection comes from storage, from a recovered snapshot or from selectAll.
NextPass == Bootstrap \/ Pass \/ SelectAll

SpecPass == Init /\ [][NextPass]_vars

\* The interleavings of the calls that write the selection or the platform list.
NextSelection ==
    \/ RecoverSyncStateBegin \/ RecoverSyncStateApply \/ RecoverSyncStateNone
    \/ LoadPlatformsBegin \/ LoadPlatformsAuthResolve \/ LoadPlatformsReject
    \/ LoadPlatformsDone
    \/ TogglePlatform \/ SelectAll \/ DeselectAll

SpecSelection == Init /\ [][NextSelection]_vars

\* The continuations of a startSync pass whose message round trips resolve: the
\* answer to SYNC_ARTICLE, the answer to (or the caught rejection of) each
\* SYNC_TO_CMS, and the settling of storage.get('syncHistory').
StartSyncSettles ==
    \/ StartSyncBatchResolve \/ StartSyncBatchNoResults
    \/ StartSyncCmsResolve \/ StartSyncCmsReject
    \/ StartSyncDone \/ StartSyncHistReject

\* The continuations of a retryFailed pass whose message round trips resolve.
RetryFailedSettles ==
    \/ RetryFailedBatchResolve \/ RetryFailedBatchNoResults
    \/ RetryFailedCmsResolve \/ RetryFailedCmsReject
    \/ RetryFailedHistResolve \/ RetryFailedDoneNoHistory \/ RetryFailedDone
    \/ RetryFailedStorageReject

\* Passes whose SYNC_ARTICLE never rejects, next to the calls that prepare a pass
\* and to reset.
NextLive ==
    \/ LoadPlatformsBegin \/ LoadPlatformsAuthResolve \/ LoadPlatformsReject
    \/ LoadPlatformsDone
    \/ LoadArticleFound \/ SelectAll
    \/ StartSyncBegin \/ StartSyncSettles
    \/ RetryFailedBegin \/ RetryFailedSettles
    \/ Reset

\* The event loop runs the continuation of every settled promise: a pass whose
\* pending round trip has settled takes its next step.
SpecLive ==
    /\ Init
    /\ [][NextLive]_vars
    /\ WF_vars(StartSyncSettles)
    /\ WF_vars(RetryFailedSettles)

\* A persisted history that is full: 25 entries of earlier sessions, newest first.
FullHistory ==
    [i \in 1..MAX_HISTORY_ITEMS |->
        HistoryItem(0 - i, "a0", <<Result("d1", i % 2 = 0, TRUE)>>)]

InitFull ==
    /\ status = "loading"
    /\ article = NoArticle
    /\ platforms = <<>>
    /\ selectedPlatforms = <<>>
    /\ results = <<>>
    /\ error = NoError
    /\ imageProgress = NoProgress
    /\ history = <<>>
    /\ recovered = FALSE
    /\ stSelected \in InitSaved
    /\ stHistory = FullHistory
    /\ lp = LPIdle
    /\ rc = 0
    /\ ss = SSIdle
    /\ rf = RFIdle
    /\ passes = 0
    /\ sent = {}
    /\ lastOp = "init"
    /\ mcp = McpInit
    /\ adapter = AdapterInit
    /\ signing = SigningInit
    /\ imooc = ImoocInit

\* The steps that read or write the history, next to those that prepare a pass.
NextHistory ==
    \/ LoadPlatformsBegin \/ LoadPlatformsAuthResolve \/ LoadPlatformsDone
    \/ LoadArticleFound \/ SelectAll \/ LoadHistory
    \/ StartSyncBegin \/ StartSyncBatchResolve \/ StartSyncBatchNoResults
    \/ StartSyncCmsResolve \/ StartSyncDone
    \/ RetryFailedBegin \/ RetryFailedBatchResolve \/ RetryFailedBatchNoResults
    \/ RetryFailedCmsResolve \/ RetryFailedHistResolve \/ RetryFailedDone
    \/ ExternalSync

SpecHistory == InitFull /\ [][NextHistory]_vars

\* Passes next to the consultation of the rate-limit collaborator.
NextRate == NextLive \/ StartSyncInvalid \/ CheckRateLimit

SpecRate == Init /\ [][NextRate]_vars

\* The MCP client alone: its calls, its timer and the events of its sockets.
NextMcp ==
    \/ McpConnect \/ McpDisconnect \/ McpResetReconnect \/ TimerFires
    \/ SocketOpens \/ SocketClosing \/ SocketErrors \/ SocketCloses

SpecMcp == Init /\ [][NextMcp]_vars

\* The control channel serving requests: the token, the message events of
\* the open socket and the answers of the collaborators, next to the calls and
\* socket events that replace the socket meanwhile.
NextMsg ==
    \/ McpConnect \/ SocketOpens \/ SocketCloses
    \/ McpSetToken \/ McpClearToken \/ ReceiveMessage \/ MethodResolves

SpecMsg == Init /\ [][NextMsg]_vars

\* A refresh of the platform list overlapping a startSync pass: either may be
\* called while the other is suspended.
NextOverlap ==
    \/ LoadPlatformsOverlapping \/ LoadPlatformsAuthResolve \/ LoadPlatformsReject
    \/ LoadPlatformsDone
    \/ LoadArticleFound \/ SelectAll
    \/ StartSyncOverlapping \/ StartSyncSettles

SpecOverlap == Init /\ [][NextOverlap]_vars

\* Calls of recoverSyncState that may overlap, next to the calls that write
\* the selection and the platform list meanwhile.
NextRecover ==
    \/ RecoverSyncStateOverlapping \/ RecoverSyncStateApply \/ RecoverSyncStateNone
    \/ LoadPlatformsOverlapping \/ LoadPlatformsAuthResolve \/ LoadPlatformsReject
    \/ LoadPlatformsDone
    \/ TogglePlatform \/ SelectAll \/ DeselectAll

SpecRecover == Init /\ [][NextRecover]_vars

\* Publish passes that may be called while another pass is suspended, next to
\* the progress events of the passes in flight.
NextBusy ==
    \/ LoadPlatformsBegin \/ LoadPlatformsAuthResolve \/ LoadPlatformsDone
    \/ LoadArticleFound \/ SelectAll
    \/ StartSyncOverlapping \/ StartSyncSettles \/ StartSyncProgress
    \/ RetryFailedOverlapping \/ RetryFailedSettles \/ RetryFailedProgress

SpecBusy == Init /\ [][NextBusy]_vars

\* One ImoocAdapter instance: calls of checkAuth and publish that may be made
\* while an earlier call is suspended.
NextImooc ==
    \/ ImoocCall \/ ImoocAddResolves \/ ImoocAddRejects
    \/ ImoocBodyResolves \/ ImoocBodyThrows
    \/ ImoocRemoveResolves \/ ImoocRemoveRejects

SpecImooc == Init /\ [][NextImooc]_vars

\* The adapters alone: calls of checkAuth and publish, one after another.
NextAdapter == AdapterCheckAuth \/ AdapterPublish

SpecAdapter == Init /\ [][NextAdapter]_vars

\* The signer alone: pairs of reordered query strings, each signed.
NextSign == SignerReceives \/ SignLeft \/ SignRight

SpecSign == Init /\ [][NextSign]_vars

\* ================================================================ claims
PublishTypes == {"SYNC_ARTICLE", "SYNC_TO_CMS"}

\* the publish requests dispatched by the last step
Published == {m \in sent : m.type \in PublishTypes}

\* ---------------------------------------------------------------- C1
\* the transition table of the orchestrator as the specification gives it
TransitionTable ==
    {<<"loading", "idle">>, <<"idle", "syncing">>, <<"syncing", "completed">>,
     <<"syncing", "idle">>, <<"completed", "syncing">>, <<"completed", "idle">>}

C2_InvalidStartSync ==
    [][/\ lastOp' = "startSync.invalid" =>
            /\ UNCHANGED <<status, results, selectedPlatforms, history, imageProgress>>
            /\ error' \in {ErrNoArticle, ErrNoPlatform}
            /\ Published' = {}
            /\ ss' = ss
       /\ lastOp' = "startSync" =>
            article # NoArticle /\ Len(selectedPlatforms) > 0]_vars

\* startSync was refused for an empty selection while results and history had content
C2_Witness ==
    /\ lastOp = "startSync.invalid"
    /\ error = ErrNoPlatform
    /\ Len(results) > 0
    /\ Len(history) > 0

\* ---------------------------------------------------------------- C3
\* the results of the platforms in `ids` within rs, one per platform
OnePerPlatform(rs, ids) ==
    /\ Len(rs) = Len(ids)
    /\ \A id \in Range(ids) :
           Cardinality({i \in 1..Len(rs) : rs[i].platform = id})
             = Cardinality({i \in 1..Len(ids) : ids[i] = id})

\* C3 (retry law): when a retry of a completed pass with N successes and M
\* failures completes, results is the N successes followed by one new result per
\* retried platform (N+M entries), and history has as many entries as before.
C3_RetryLaw ==
    [][lastOp' = "retryFailed.done" /\ rf.from = "completed" =>
        /\ Len(results') = Len(rf.success) + Len(rf.failed)
        /\ SubSeq(results', 1, Len(rf.success)) = rf.success
        /\ OnePerPlatform(SubSeq(results', Len(rf.success) + 1, Len(results')),
                          rf.failed)
        /\ Len(history') = rf.histLen]_vars

\* ---------------------------------------------------------------- C4
\* the ids with a failed entry in rs
FailedIn(rs) == {r.platform : r \in {x \in Range(rs) : ~x.success}}

\* the successful entries of rs, in order
SucceededIn(rs) == SelectSeq(rs, LAMBDA r : r.success)

IsPrefix(a, b) == Len(a) <= Len(b) /\ SubSeq(b, 1, Len(a)) = a

\* every publish request a step of retryFailed dispatches is for failed platforms
RetryDispatchesFailedOnly ==
    rf' # rf => \A m \in Published' : Range(m.platforms) \subseteq FailedIn(rf'.before)

\* the successes are kept as they were when the retry starts and when it completes
RetryKeepsSuccesses ==
    /\ lastOp' = "retryFailed" =>
         /\ rf'.before = results
         /\ results' = SucceededIn(results)
    /\ lastOp' = "retryFailed.done" => IsPrefix(SucceededIn(rf.before), results')

\* C4 as stated: retryFailed dispatches failed platforms only, never one whose
\* result succeeded, keeps the successes verbatim, and with no failed result
\* changes nothing.
C4_RetryOnlyFailed ==
    [][/\ RetryDispatchesFailedOnly
       /\ rf' # rf => \A m \in Published' :
              Range(m.platforms) \cap {r.platform : r \in Range(SucceededIn(rf'.before))}
                = {}
       /\ RetryKeepsSuccesses
       /\ (lastOp' \in {"retryFailed", "retryFailed.invalid", "retryFailed.nothing"}
             /\ FailedIn(results) = {})
            => UNCHANGED <<store, storage, procs>> /\ sent' = {}]_vars

\* C4 (amended): retryFailed dispatches publish requests only for platforms with
\* a failed entry in results; the successful entries are kept verbatim and in
\* order, as results when the retry enters syncing and as its leading part when
\* it completes.  With an article loaded and no failed result retryFailed
\* changes nothing; with no article it only sets error.
C4_RetryOnlyFailedWithArticle ==
    [][/\ RetryDispatchesFailedOnly
       /\ RetryKeepsSuccesses
       /\ (lastOp' \in {"retryFailed", "retryFailed.nothing"} /\ FailedIn(results) = {})
            => article # NoArticle /\ UNCHANGED <<store, storage, procs>> /\ sent' = {}
       /\ lastOp' = "retryFailed.invalid" =>
            /\ article = NoArticle
            /\ error' = ErrNoArticle
            /\ sent' = {}
            /\ UNCHANGED <<status, article, platforms, selectedPlatforms, results,
                           imageProgress, history, recovered, storage, procs>>
       /\ lastOp' = "retryFailed" => article # NoArticle /\ FailedIn(results) # {}]_vars

\* a retry has completed with a carried-over success in front of a new result
C4_Witness ==
    /\ lastOp = "retryFailed.done"
    /\ Len(results) >= 2
    /\ results[1].success
    /\ results[2].platform # results[1].platform

\* ---------------------------------------------------------------- C5
\* h2 is h1 with at most the results of its first entry replaced
SameButFirstResults(h1, h2) ==
    /\ Len(h2) = Len(h1)
    /\ \A i \in 2..Len(h1) : h2[i] = h1[i]
    /\ Len(h1) > 0 => h2[1].id = h1[1].id /\ h2[1].title = h1[1].title

\* C5 as stated: a completing retry changes the persisted and the in-memory
\* history only in the results of entry 0 (same length as before the retry), and
\* nothing else modifies an existing entry.
C5_HistoryOnlyFirstResults ==
    [][/\ lastOp' = "retryFailed.done" =>
            /\ SameButFirstResults(stHistory, stHistory')
            /\ SameButFirstResults(history, history')
            /\ Len(history') = rf.histLen
       /\ (stHistory' # stHistory /\ lastOp' # "retryFailed.done") =>
            /\ Len(stHistory') >= Len(stHistory)
            /\ stHistory = SubSeq(stHistory', Len(stHistory') - Len(stHistory) + 1,
                                  Len(stHistory'))]_vars

\* C5 (amended): a completing retry that read a non-empty persisted history
\* writes that history back with only the results of entry 0 replaced (same
\* length, other entries unchanged, entry 0 keeps its identity) and makes the
\* in-memory history equal to what it wrote, whatever the in-memory history was
\* before; with an empty persisted history it changes neither.  No other step of
\* the store writes the persisted history (it changes otherwise only when the
\* background has handled a SYNC_ARTICLE), and a step that changes the in-memory
\* history makes it the persisted one.
C5_HistoryWrittenFromStorage ==
    [][/\ (lastOp' = "retryFailed.done" /\ rf.pc = "write") =>
            /\ SameButFirstResults(rf.existing, stHistory')
            /\ stHistory'[1].results = results'
            /\ history' = stHistory'
       /\ (lastOp' = "retryFailed.done" /\ rf.pc = "hist") =>
            stHistory = <<>> /\ UNCHANGED <<history, stHistory>>
       /\ (stHistory' # stHistory /\ lastOp' # "retryFailed.done") =>
            \/ ss.pc = "batch" /\ ss'.pc # "batch"
            \/ lastOp' = "externalSync"
       /\ history' # history => history' = stHistory']_vars

\* a retry has replaced the results of the newest of two persisted entries
C5_Witness ==
    /\ lastOp = "retryFailed.done"
    /\ Len(stHistory) >= 2
    /\ history = stHistory
    /\ stHistory[1].results = results

\* ---------------------------------------------------------------- C6
PassInFlight == ss.pc # "idle" \/ rf.pc # "idle"

\* C6 as stated: when the message round trips of a pass resolve, a pass that is
\* syncing eventually reaches completed with imageProgress cleared.
C6_PassReachesCompleted ==
    (status = "syncing" /\ PassInFlight)
      ~> (status = "completed" /\ imageProgress = NoProgress)

\* C6 (amended): when the message round trips of a pass resolve, a pass in
\* flight eventually ends: completed with imageProgress cleared when the read of
\* the persisted history resolves (for retryFailed also when that read or the
\* write rejects), and idle with the failure in error when the read of the
\* persisted history by startSync rejects.
C6_PassEnds ==
    PassInFlight
      ~> \/ /\ lastOp \in {"startSync.done", "retryFailed.done", "retryFailed.catch"}
            /\ status = "completed"
            /\ imageProgress = NoProgress
         \/ /\ lastOp = "startSync.catch"
            /\ status = "idle"
            /\ error = ErrInfra
            /\ imageProgress = NoProgress

\* a pass over a batch and two accounts has completed with all three results
C6_Witness ==
    /\ lastOp = "startSync.done"
    /\ status = "completed"
    /\ imageProgress = NoProgress
    /\ Len(results) = 3
    /\ ~PassInFlight

\* ---------------------------------------------------------------- C7
\* C7: an infrastructure failure of a pass started by startSync or by
\* retryFailed takes the store to idle, with the failure in error and the image
\* progress cleared.
C7_InfrastructureFailureToIdle ==
    [][lastOp' \in {"startSync.catch", "retryFailed.catch"} =>
        /\ status' = "idle"
        /\ error' = ErrInfra
        /\ imageProgress' = NoProgress]_vars

\* ---------------------------------------------------------------- C8
Last(s) == s[Len(s)]

\* the results of the cms accounts are the last entries of all, in request order
CmsTail(all, cms) ==
    /\ Len(all) >= Len(cms)
    /\ \A k \in 1..Len(cms) : all[Len(all) - Len(cms) + k].platform = cms[k]

\* C8: a failed or rejected SYNC_TO_CMS records a result for that account and
\* goes on with the next account; it changes neither status, results nor error,
\* and the pass completes with one result per account, in request order.
C8_CmsFailureKeepsPass ==
    [][/\ (ss.pc = "cms" /\ ss' # ss) =>
            /\ UNCHANGED <<status, results, error>>
            /\ ss'.pc = (IF ss.i < Len(ss.cms) THEN "cms" ELSE "hist")
            /\ ss'.all = Append(ss.all, Last(ss'.all))
            /\ Last(ss'.all).platform = ss.cms[ss.i]
            /\ lastOp' = "startSync.cms.reject" => ~Last(ss'.all).success
            /\ Published' = IF ss.i < Len(ss.cms)
                              THEN {Msg("SYNC_TO_CMS", <<ss.cms[ss.i + 1]>>, FALSE)}
                              ELSE {}
       /\ (rf.pc = "cms" /\ rf' # rf) =>
            /\ UNCHANGED <<status, results, error>>
            /\ rf'.pc = (IF rf.i < Len(rf.cms) THEN "cms" ELSE "hist")
            /\ rf'.retry = Append(rf.retry, Last(rf'.retry))
            /\ Last(rf'.retry).platform = rf.cms[rf.i]
            /\ lastOp' = "retryFailed.cms.reject" => ~Last(rf'.retry).success
       /\ lastOp' = "startSync.done" =>
            status' = "completed" /\ CmsTail(results', ss.cms)
       /\ lastOp' = "retryFailed.done" =>
            status' = "completed" /\ CmsTail(results', rf.cms)]_vars

\* a pass has completed with a failed account followed by a published one
C8_Witness ==
    /\ lastOp = "startSync.done"
    /\ status = "completed"
    /\ \E i, j \in 1..Len(results) :
          /\ i < j
          /\ results[i].platform \in CmsIds /\ ~results[i].success
          /\ results[j].platform \in CmsIds /\ results[j].success

\* ---------------------------------------------------------------- C9
\* what reset writes, dispatches and leaves alone
ResetEffect ==
    /\ status' = "idle"
    /\ results' = <<>>
    /\ error' = NoError
    /\ imageProgress' = NoProgress
    /\ Msg("CLEAR_SYNC_STATE", <<>>, FALSE) \in sent'
    /\ UNCHANGED <<article, platforms, selectedPlatforms, history>>

\* C9 as stated: the effect of reset, taken from completed or idle only
C9_ResetFromCompletedOrIdle ==
    [][lastOp' = "reset" => ResetEffect /\ status \in {"completed", "idle"}]_vars

\* C9 (amended): reset sets status to idle, empties results, clears error and
\* imageProgress, dispatches CLEAR_SYNC_STATE and leaves article, platforms,
\* selectedPlatforms and history unchanged, from whatever status it is called in
\* (also from syncing and loading).
C9_Reset == [][lastOp' = "reset" => ResetEffect]_vars

\* reset has run in the middle of a pass and has kept article, selection and history
C9_Witness ==
    /\ lastOp = "reset"
    /\ ss.pc # "idle"
    /\ article # NoArticle
    /\ Len(selectedPlatforms) > 0
    /\ Len(platforms) > 0
    /\ Len(history) > 0

\* ---------------------------------------------------------------- C10
AuthenticatedIdSet(ps) == {p.id : p \in {q \in Range(ps) : q.isAuthenticated}}

\* C10 as stated: the selection is always within the authenticated platforms
C10_SelectionAuthenticated ==
    Range(selectedPlatforms) \subseteq AuthenticatedIdSet(platforms)

\* C10 (amended): the selection is within the authenticated platforms right
\* after a loadPlatforms that started in loading or idle has finished, after
\* selectAll and after deselectAll; recoverSyncState, togglePlatform and a
\* refresh during syncing or completed write the selection or the platform list
\* without re-establishing it.
C10_SelectionAuthenticatedAfterLoad ==
    [][(\/ lastOp' = "loadPlatforms.done" /\ ~lp.preserve
        \/ lastOp' \in {"selectAll", "deselectAll"})
       => Range(selectedPlatforms') \subseteq AuthenticatedIdSet(platforms')]_vars

\* a finished loadPlatforms has dropped a saved platform that is no longer authenticated
C10_Witness ==
    /\ lastOp = "loadPlatforms.done"
    /\ status = "idle"
    /\ Len(selectedPlatforms) > 0
    /\ Len(stSelected) > Len(selectedPlatforms)

\* ---------------------------------------------------------------- C11
\* entries are ordered newest first: their ids strictly decrease
NewestFirst(h) == \A i, j \in 1..Len(h) : i < j => h[i].id > h[j].id

C12_ToggleAndPersist ==
    [][/\ lastOp' = "togglePlatform" =>
            \E id \in Ids :
                /\ Contains(selectedPlatforms', id) = ~Contains(selectedPlatforms, id)
                /\ Without(selectedPlatforms', id) = Without(selectedPlatforms, id)
                /\ ~Contains(selectedPlatforms, id) =>
                       selectedPlatforms' = Append(selectedPlatforms, id)
       /\ lastOp' \in {"togglePlatform", "selectAll", "deselectAll"} =>
            stSelected' = selectedPlatforms'
       /\ Toggled(Toggled(Toggled(<<>>, "d1"), "c1"), "d1") = <<"c1">>]_vars

\* toggles have left a persisted selection that is not in the order of the list
C12_Witness ==
    /\ lastOp = "togglePlatform"
    /\ selectedPlatforms = <<"c1", "d1">>
    /\ stSelected = <<"c1", "d1">>

\* ---------------------------------------------------------------- C13
\* the ids of `ids` that `platforms` lists with the given sourceType, in order
ListedAs(ids, kind) ==
    SelectSeq(ids, LAMBDA id :
        \E p \in Range(platforms) : p.id = id /\ p.sourceType = kind)

\* what the first step of a pass over `ids` dispatches: the batch for all its dsl
\* ids, or, without dsl ids, the request for its first cms account
FirstDispatch(ids, skipHistory) ==
    IF Len(ListedAs(ids, "dsl")) > 0
      THEN {Msg("SYNC_ARTICLE", ListedAs(ids, "dsl"), skipHistory)}
      ELSE IF Len(ListedAs(ids, "cms")) > 0
             THEN {Msg("SYNC_TO_CMS", <<ListedAs(ids, "cms")[1]>>, FALSE)}
             ELSE {}

\* the ids with a failed entry in rs, in the order of rs
FailedSeq(rs) == [i \in 1..Len(SelectSeq(rs, LAMBDA r : ~r.success)) |->
                    SelectSeq(rs, LAMBDA r : ~r.success)[i].platform]

\* a step of the pass p -> q that dispatches SYNC_TO_CMS dispatches the request
\* of the next account, and the request that was outstanding has been settled
NextAccountOnly(p, q) ==
    \A m \in Published' :
        m.type = "SYNC_TO_CMS" =>
            /\ q.pc = "cms"
            /\ p.pc \in {"idle", "batch", "cms"}
            /\ q.i = (IF p.pc = "cms" THEN p.i + 1 ELSE 1)
            /\ m.platforms = <<q.cms[q.i]>>

\* C13: a pass dispatches all its dsl platforms in one SYNC_ARTICLE message, as
\* its first step; every step dispatches at most one publish request; a
\* SYNC_TO_CMS request is dispatched only by the step that settles the batch or
\* the previous SYNC_TO_CMS request (or by the first step of a pass without dsl
\* platforms), for the accounts in selection order.
C13_BatchThenSequential ==
    [][/\ Cardinality(Published') <= 1
       /\ lastOp' = "startSync" =>
            /\ Published' = FirstDispatch(selectedPlatforms, FALSE)
            /\ ss'.cms = ListedAs(selectedPlatforms, "cms")
       /\ lastOp' = "retryFailed" =>
            /\ Published' = FirstDispatch(FailedSeq(results), TRUE)
            /\ rf'.cms = ListedAs(FailedSeq(results), "cms")
       /\ (\E m \in Published' : m.type = "SYNC_ARTICLE") =>
            lastOp' \in {"startSync", "retryFailed"}
       /\ ss' # ss =>
            /\ NextAccountOnly(ss, ss')
            /\ (ss.pc # "idle" /\ ss'.pc # "idle") => ss'.cms = ss.cms
       /\ rf' # rf =>
            /\ NextAccountOnly(rf, rf')
            /\ (rf.pc # "idle" /\ rf'.pc # "idle") => rf'.cms = rf.cms
       /\ (ss' = ss /\ rf' = rf) => Published' = {}]_vars

\* the request for the second account has been dispatched after the batch and
\* the request for the first account were settled
C13_Witness ==
    /\ ss.pc = "cms"
    /\ ss.i = 2
    /\ Len(ss.dsl) > 0
    /\ Len(ss.all) = 2
    /\ sent = {Msg("SYNC_TO_CMS", <<"c2">>, FALSE)}

\* ---------------------------------------------------------------- C14
\* a is a leading part of b, entry by entry (platform and outcome)
LeadingPart(a, b) ==
    /\ Len(a) <= Len(b)
    /\ \A i \in 1..Len(a) :
           a[i].platform = b[i].platform /\ a[i].success = b[i].success

AfterTooSoon == lastOp = "checkRateLimit.tooSoon"

Retained(progress, q) == IF progress.platform = q THEN progress ELSE NoProgress

\* the step applies an IMAGE_PROGRESS event of platform p
ImageEventOf(p) == imageProgress' # imageProgress /\ imageProgress'.platform = p

\* C16: image progress is kept per platform: an IMAGE_PROGRESS event of a
\* platform makes the retained progress of that platform the event's, and does
\* not discard the progress retained for another platform.
C16_ImageProgressPerPlatform ==
    [][\A p \in Ids :
          ImageEventOf(p) =>
              /\ Retained(imageProgress', p) = imageProgress'
              /\ \A q \in Ids \ {p} :
                     Retained(imageProgress', q) = Retained(imageProgress, q)]_vars

\* ---------------------------------------------------------------- C17
\* sockets that are CONNECTING or OPEN and carry a handler of the client
LiveAttached ==
    {s \in SocketIds : /\ mcp.sockets[s].readyState \in {"CONNECTING", "OPEN"}
                       /\ Attached(mcp.sockets[s])}

\* C17: in every reachable state at most one socket that is CONNECTING or OPEN
\* has the client's handlers attached (and it is the one this.ws refers to),
\* and a connect() made while the socket is OPEN changes nothing: no socket is
\* created, dropped or detached.
C17_OneLiveSocket ==
    /\ [](/\ Cardinality(LiveAttached) <= 1
          /\ LiveAttached \subseteq {mcp.ws})
    /\ [][(lastOp' = "mcp.connect" /\ IsConnected(mcp)) => mcp' = mcp]_vars

\* connect() has just been called on an OPEN socket while an earlier socket,
\* dropped by disconnect(), is still closing
C17_Witness ==
    /\ lastOp = "mcp.connect"
    /\ IsConnected(mcp)
    /\ LiveAttached = {mcp.ws}
    /\ \E s \in SocketIds : mcp.sockets[s].readyState = "CLOSING"

\* ---------------------------------------------------------------- C18
\* the steps whose handler ends in a call of scheduleReconnect
SchedulingOps ==
    {"mcp.onclose", "mcp.connect.catch", "mcp.resetReconnect.catch",
     "mcp.timer.catch"}

\* C18: at most one timeout is pending at any time, and it is the one
\* this.reconnectTimer holds; a close event or a failed construction that
\* reaches scheduleReconnect while a timer is pending leaves the pending
\* timeouts and the timer field as they are, and reconnectAttempts too (after
\* resetReconnect: at the 0 it has just been given).
C18_ScheduleIdempotent ==
    /\ [](/\ Cardinality(mcp.timers) <= 1
          /\ TimerHandles(mcp.timers) = {mcp.reconnectTimer} \ {NoTimer})
    /\ [][(lastOp' \in SchedulingOps /\ lastOp' # "mcp.timer.catch"
              /\ mcp.reconnectTimer # NoTimer)
            => /\ mcp'.timers = mcp.timers
               /\ mcp'.reconnectTimer = mcp.reconnectTimer
               /\ mcp'.reconnectAttempts =
                     IF lastOp' = "mcp.resetReconnect.catch"
                     THEN 0 ELSE mcp.reconnectAttempts]_vars

\* a socket created by resetReconnect() has closed while the timer of an
\* earlier close was pending: the counter is still at the 0 of the reset
C18_Witness ==
    /\ lastOp = "mcp.onclose"
    /\ mcp.reconnectTimer # NoTimer
    /\ Cardinality(mcp.timers) = 1
    /\ mcp.reconnectAttempts = 0

\* ---------------------------------------------------------------- C19
\* the delays the specification lists for the counter values 0..6
BackoffTable == <<1000, 2000, 4000, 8000, 16000, 30000, 30000>>

\* min(1000 * 2^n, 30000); 2^n is only evaluated where it fits a machine integer
ExpectedDelay(n) ==
    IF n <= 14
    THEN (IF 1000 * 2^n < 30000 THEN 1000 * 2^n ELSE 30000)
    ELSE 30000

\* the timeouts a step has added
Scheduled == mcp'.timers \ mcp.timers

\* the counter value scheduleReconnect finds in a step
CounterFound ==
    IF lastOp' = "mcp.resetReconnect.catch" THEN 0 ELSE mcp.reconnectAttempts

\* C19: a reconnect scheduled when the counter is n gets the delay
\* min(1000 * 2^n, 30000), which for n = 0..6 is 1000, 2000, 4000, 8000, 16000,
\* 30000, 30000; the step that schedules it raises the counter by exactly one,
\* and no other step raises the counter except disconnect(), which sets it to
\* the maximum.
C19_Backoff ==
    [][/\ \A t \in Scheduled :
             /\ t.interval = ExpectedDelay(CounterFound)
             /\ CounterFound <= 6 => t.interval = BackoffTable[CounterFound + 1]
             /\ mcp'.reconnectAttempts = CounterFound + 1
       /\ Cardinality(Scheduled) <= 1
       /\ (mcp'.reconnectAttempts > mcp.reconnectAttempts /\ Scheduled = {})
             => lastOp' = "mcp.disconnect"]_vars

\* the sixth consecutive failure: scheduled at counter 5, the first delay the
\* cap cuts (32000 -> 30000)
C19_Witness ==
    /\ lastOp = "mcp.onclose"
    /\ mcp.reconnectAttempts = 6
    /\ \E t \in mcp.timers : t.id = mcp.reconnectTimer /\ t.interval = 30000

\* ---------------------------------------------------------------- C20
\* the counter stays within 0..maxReconnectAttempts
CounterBounded == mcp.reconnectAttempts \in 0..maxReconnectAttempts

\* with the counter at the maximum, a close or error event (and a failed
\* construction) adds no timeout
NoScheduleAtMax ==
    (mcp.reconnectAttempts = maxReconnectAttempts
        /\ lastOp' \in SchedulingOps \cup {"mcp.onerror", "mcp.closed"}
        /\ lastOp' # "mcp.resetReconnect.catch")
      => (mcp'.timers \subseteq mcp.timers
             /\ mcp'.reconnectAttempts = maxReconnectAttempts)

\* resetReconnect(): the counter restarts from 0 (and is 1 when the construction
\* throws and a reconnect is scheduled); an OPEN socket is kept, otherwise a new
\* socket, CONNECTING with the handlers attached, becomes this.ws
ResetRestarts ==
    /\ lastOp' = "mcp.resetReconnect"
         => /\ mcp'.reconnectAttempts = 0
            /\ IsConnected(mcp) => mcp'.ws = mcp.ws /\ mcp'.sockets = mcp.sockets
            /\ ~IsConnected(mcp)
                 => /\ mcp'.ws # NoSocket
                    /\ mcp'.sockets[mcp'.ws] = NewSocket
                    /\ mcp.sockets[mcp'.ws].readyState = "CLOSED"
    /\ lastOp' = "mcp.resetReconnect.catch"
         => /\ mcp'.ws = NoSocket
            /\ mcp'.reconnectAttempts = Cardinality(Scheduled)

\* C20 as stated: the counter never exceeds the maximum, at the maximum no close
\* or error event schedules a reconnect, and the counter leaves the maximum only
\* in a resetReconnect() call, which restarts it from 0 and connects if not
\* connected.
C20_ResumesOnlyByReset ==
    /\ []CounterBounded
    /\ [][NoScheduleAtMax]_vars
    /\ [][ResetRestarts]_vars
    /\ [][(mcp.reconnectAttempts = maxReconnectAttempts
              /\ mcp'.reconnectAttempts # maxReconnectAttempts)
            => lastOp' \in {"mcp.resetReconnect", "mcp.resetReconnect.catch"}]_vars

\* C20: the counter never exceeds the maximum, at the maximum no close or error
\* event schedules a reconnect, and the counter leaves the maximum only in a
\* resetReconnect() call or in the open event of a socket (the one created by
\* the last scheduled attempt or by connect()), both of which set it to 0.
C20_StopsAtMax ==
    /\ []CounterBounded
    /\ [][NoScheduleAtMax]_vars
    /\ [][ResetRestarts]_vars
    /\ [][(mcp.reconnectAttempts = maxReconnectAttempts
              /\ mcp'.reconnectAttempts # maxReconnectAttempts)
            => /\ lastOp' \in {"mcp.resetReconnect", "mcp.resetReconnect.catch",
                               "mcp.onopen"}
               /\ mcp'.reconnectAttempts = Cardinality(Scheduled)]_vars

\* a socket has closed with the counter at the maximum: nothing is scheduled
\* and the client is left without socket and without timer
C20_Witness ==
    /\ lastOp = "mcp.onclose"
    /\ mcp.reconnectAttempts = maxReconnectAttempts
    /\ mcp.timers = {}
    /\ mcp.ws = NoSocket

\* ---------------------------------------------------------------- C21
\* this.ws is a socket that has opened (OPEN, or CLOSING on the peer's side)
WsHasOpened ==
    mcp.ws # NoSocket /\ mcp.sockets[mcp.ws].readyState \in {"OPEN", "CLOSING"}

\* C21: the open event of a socket leaves reconnectAttempts at 0 and no
\* timeout pending; while the socket stays this.ws both remain so; and the close
\* event of that socket schedules exactly one reconnect, with the base delay of
\* 1000 ms, raising the counter to 1.
C21_OpenResetsBackoff ==
    /\ [][lastOp' = "mcp.onopen"
            => /\ mcp'.reconnectAttempts = 0
               /\ mcp'.timers = {}
               /\ mcp'.reconnectTimer = NoTimer
               /\ IsConnected(mcp')]_vars
    /\ [](WsHasOpened => mcp.reconnectAttempts = 0 /\ mcp.timers = {})
    /\ [][(WsHasOpened /\ lastOp' = "mcp.onclose")
            => /\ Cardinality(Scheduled) = 1
               /\ \A t \in Scheduled : t.interval = 1000
               /\ mcp'.reconnectAttempts = 1]_vars

\* a socket has just opened, a socket the client replaced earlier is still
\* closing, and neither a counted attempt nor a timeout is left
C21_Witness ==
    /\ lastOp = "mcp.onopen"
    /\ IsConnected(mcp)
    /\ mcp.reconnectAttempts = 0
    /\ mcp.timers = {}
    /\ \E s \in SocketIds : mcp.sockets[s].readyState = "CLOSING"

\* ---------------------------------------------------------------- C22
\* the messages a step has taken from the socket
ReceivedIn(step) == {x.data : x \in {y \in step : y.type = "request"}}

\* the responses a step has written to the socket
WrittenIn(step) == {x.text : x \in {y \in step : y.type = "response"}}

\* the collaborators a step has called
CalledIn(step) == {y.type : y \in {x \in step : x.type \notin {"request", "response"}}}

\* a token is configured: setToken was given a non-empty string
TokenConfigured == mcp.token \notin {NoToken, ""}

\* the text is a response with the error code and without result
IsErrorText(text, code) ==
    /\ "error" \in DOMAIN text
    /\ text.error.code = code
    /\ "result" \notin DOMAIN text

\* C22: a request is dispatched (a collaborator called, a call left pending)
\* only if a token is configured and the message token equals it; a request
\* received with no token configured is answered with error code 401, one
\* received with a configured token and a different or missing message token
\* with error code 403, and in both cases exactly that response is written, no
\* collaborator is called and the client is left unchanged.
C22_TokenGate ==
    [][\A data \in ReceivedIn(sent') :
          /\ (CalledIn(sent') # {} \/ mcp'.calls # mcp.calls)
                => (TokenConfigured /\ data.token = mcp.token)
          /\ (data.json = "object" /\ ~(TokenConfigured /\ data.token = mcp.token))
                => /\ CalledIn(sent') = {}
                   /\ mcp' = mcp
                   /\ Cardinality(WrittenIn(sent')) = 1
                   /\ \A text \in WrittenIn(sent') :
                         IsErrorText(text, IF TokenConfigured THEN 403 ELSE 401)]_vars

\* a request without token has just been refused with 403 while an authorized
\* request is awaiting its collaborator
C22_Witness ==
    /\ lastOp = "mcp.msg.403"
    /\ mcp.token = "t1"
    /\ mcp.calls # {}
    /\ \E data \in ReceivedIn(sent) : data.token = Undefined
    /\ \E text \in WrittenIn(sent) : IsErrorText(text, 403)

\* ---------------------------------------------------------------- C23
\* the text has exactly one of result and error, and an error is {code, message}
OneOfResultAndError(text) ==
    /\ ("result" \in DOMAIN text) # ("error" \in DOMAIN text)
    /\ "error" \in DOMAIN text
          => /\ DOMAIN text.error = {"code", "message"}
             /\ text.error.code \in {401, 403, 0 - 1}
             /\ text.error.message # Undefined

\* the ids of the requests a step answers: the request it received, or the
\* pending request whose last collaborator answered
AnsweredIn(before, after, step) ==
    {data.id : data \in ReceivedIn(step)}
    \cup {c.id : c \in before.calls \ after.calls}

MessageOps ==
    {"mcp.msg.unparseable", "mcp.msg.401", "mcp.msg.403", "mcp.msg.invalid",
     "mcp.msg.dispatch", "mcp.msg.next", "mcp.msg.done"}

\* C24: no step of handleMessage, whatever the message (text that does not
\* parse, a refused token, an unknown method, a missing parameter, a method
\* that throws) and whatever the socket has become meanwhile, changes this.ws,
\* any socket, the reconnect timer, the pending timeouts or reconnectAttempts.
C24_MessageLeavesSocket ==
    [][lastOp' \in MessageOps
          => /\ mcp'.ws = mcp.ws
             /\ mcp'.sockets = mcp.sockets
             /\ mcp'.reconnectTimer = mcp.reconnectTimer
             /\ mcp'.timers = mcp.timers
             /\ mcp'.reconnectAttempts = mcp.reconnectAttempts]_vars

\* a request has settled while the socket that replaced the one it came in on
\* is still connecting: send throws, nothing is written, the socket stays
C24_Witness ==
    /\ lastOp = "mcp.msg.done"
    /\ WrittenIn(sent) = {}
    /\ mcp.ws # NoSocket
    /\ mcp.sockets[mcp.ws].readyState = "CONNECTING"
    /\ Attached(mcp.sockets[mcp.ws])

\* ---------------------------------------------------------------- C25
\* the errors a request must fail with before anything is done, in the order
\* the method checks for them
ExpectedErrors(data) ==
    CASE data.method = "checkAuth" ->
            IF "platform" \in data.params THEN <<>>
            ELSE <<"Missing platform parameter">>
      [] data.method = "syncArticle" ->
            (IF "platforms" \in data.params THEN <<>>
             ELSE <<"Missing platforms parameter">>)
            \o (IF "title" \in data.params THEN <<>>
                ELSE <<"Missing article title">>)
            \o (IF "markdown" \in data.params \/ "content" \in data.params
                THEN <<>> ELSE <<"Missing article content">>)
      [] data.method = "uploadImage" ->
            (IF "imageData" \in data.params THEN <<>>
             ELSE <<"Missing imageData parameter">>)
            \o (IF "mimeType" \in data.params THEN <<>>
                ELSE <<"Missing mimeType parameter">>)
      [] data.method \in {"listPlatforms", "extractArticle"} -> <<>>
      [] OTHER -> <<"Unknown method">>

\* C25: a request that passes the token check but lacks a required parameter
\* (checkAuth: platform; syncArticle: platforms, title, markdown or content;
\* uploadImage: imageData, mimeType) or names an unknown method is answered
\* with the error of the first failed check, and that step calls no
\* collaborator (no message to the orchestrator, no adapter lookup, no upload)
\* and leaves no call pending; a request that lacks nothing calls exactly the
\* first collaborator of its method.
C25_ValidateFirst ==
    [][\A data \in ReceivedIn(sent') :
          (data.json = "object" /\ TokenConfigured /\ data.token = mcp.token)
            => IF ExpectedErrors(data) # <<>>
               THEN /\ CalledIn(sent') = {}
                    /\ mcp'.calls = mcp.calls
                    /\ Cardinality(WrittenIn(sent')) = 1
                    /\ \A text \in WrittenIn(sent') :
                          /\ IsErrorText(text, 0 - 1)
                          /\ text.error.message = Head(ExpectedErrors(data))
               ELSE /\ WrittenIn(sent') = {}
                    /\ Cardinality(CalledIn(sent')) = 1
                    /\ Cardinality(mcp'.calls) = Cardinality(mcp.calls) + 1]_vars

\* a syncArticle with platforms and markdown but no title has been refused
C25_Witness ==
    /\ lastOp = "mcp.msg.invalid"
    /\ \E data \in ReceivedIn(sent) :
          /\ data.method = "syncArticle"
          /\ data.params = {"platforms", "markdown"}
    /\ \E text \in WrittenIn(sent) : text.error.message = "Missing article title"
    /\ mcp.calls = {}

\* ---------------------------------------------------------------- C26
\* the last call was checkAuth and has returned or raised
CheckAuthCalled == adapter.method = "checkAuth" /\ adapter.outcome # NoOutcome

\* C26: checkAuth of every adapter (weixin, juejin, imooc) never raises:
\* whatever the runtime answers (the request rejects, the body does not parse,
\* adding or removing the header rule rejects), the call resolves to an
\* AuthResult.
C26_CheckAuthNeverRaises ==
    CheckAuthCalled => adapter.outcome.kind = "AuthResult"

\* ---------------------------------------------------------------- C27
\* the last call was publish and has returned or raised
PublishCalled == adapter.method = "publish" /\ adapter.outcome # NoOutcome

\* a SyncResult of the adapter called: a success with postId and postUrl, or a
\* failure with an error message
WellFormedResult(r, id) ==
    /\ r.kind = "SyncResult"
    /\ r.platform = id
    /\ IF r.success
       THEN r.postId # Undefined /\ r.postUrl # Undefined
       ELSE r.error # Undefined

\* C27: publish of every adapter never raises: under any failure of the runtime
\* (authentication, image upload, the create request, the removal of the header
\* rule) it resolves to a SyncResult that is a success with postId and postUrl
\* or a failure with an error message, and whose platform is the adapter's meta id.
C27_PublishNeverRaises ==
    PublishCalled => WellFormedResult(adapter.outcome, adapter.id)

\* ---------------------------------------------------------------- C28
\* the positions of the log at which a step of the given kinds was taken
StepsOf(ops) == {i \in 1..Len(adapter.log) : adapter.log[i].op \in ops}
Precedes(ops, i) == \E j \in StepsOf(ops) : j < i

\* authentication ensured: the login of weixin checked or cached, the session
\* token of juejin obtained
AuthEnsuredOps == {"authEnsured", "csrfToken"}

\* the create/draft request follows the end of the image pipeline
ImagesBeforeCreate ==
    \A i \in StepsOf({"fetch.create"}) : Precedes({"processImages.done"}, i)

\* in weixin every formula of the article is rewritten before the image
\* pipeline and its image handed to the upload step
FormulasUploaded ==
    adapter.id = "weixin" =>
        \A i \in StepsOf({"processImages.done"}) :
            /\ Precedes({"processLatex"}, i)
            /\ \A k \in 1..Len(adapter.article.spans) :
                   IsLatexFormula(adapter.article.spans[k]) =>
                       \E j \in StepsOf({"upload"}) :
                           /\ j < i
                           /\ adapter.log[j].src = [kind |-> "formula", of |-> k]
                           /\ \E l \in StepsOf({"processLatex"}) : l < j

\* C28: publish of every adapter goes auth-ensure, content transform, create/draft
\* request, response interpretation: no create/draft request is issued before
\* authentication has been ensured and the image pipeline has finished, and in
\* weixin the formula rewrite runs before the image pipeline, so that the
\* formula images are passed to the image upload step.
C28_PublishOrder ==
    PublishCalled =>
        /\ \A i \in StepsOf({"fetch.create"}) : Precedes(AuthEnsuredOps, i)
        /\ ImagesBeforeCreate
        /\ FormulasUploaded

\* every step of the transform and the create/draft request follow a step of
\* the given kind
FirstComes(ops) ==
    \A i \in StepsOf({"processLatex", "upload", "processImages.done", "fetch.create"}) :
        Precedes(ops, i)

\* C28, as the adapters have it: the create/draft request follows the end of
\* the image pipeline in every adapter; before the transform weixin ensures the
\* login (cached or checked), juejin obtains its session token, imooc takes
\* no authentication step at all; in weixin the formula rewrite runs before the
\* image pipeline and the formula images are passed to the upload step.
C28_OrderByAdapter ==
    PublishCalled =>
        /\ ImagesBeforeCreate
        /\ FormulasUploaded
        /\ adapter.id = "weixin" => FirstComes({"authEnsured"})
        /\ adapter.id = "juejin" => FirstComes({"csrfToken"})
        /\ adapter.id = "imooc" => StepsOf(AuthEnsuredOps \cup {"fetch.auth", "fetch.csrf"}) = {}

\* weixin published an article with an image and a formula after checking the
\* login: the formula image was uploaded after the article's image, then the
\* draft was created
C28_Witness ==
    /\ PublishCalled
    /\ adapter.id = "weixin"
    /\ adapter.outcome.kind = "SyncResult" /\ adapter.outcome.success
    /\ [o \in 1..Len(adapter.log) |-> adapter.log[o].op]
         = <<"fetch.auth", "authEnsured", "processLatex", "upload", "upload",
             "processImages.done", "fetch.create">>
    /\ adapter.log[5].src = [kind |-> "formula", of |-> 1]

\* ---------------------------------------------------------------- C29
\* both urls of the pair have been signed
BothSigned == signing.leftSigned # <<>> /\ signing.rightSigned # <<>>

\* C29: canonicalization is order-independent: two query strings holding the
\* same name=value parameters, each as often, in different orders (repeated
\* names included) get the same canonical query string from signAWS4, hence
\* the same signature under a fixed clock.
C29_OrderIndependent ==
    (BothSigned /\ SameParameters(signing.left, signing.right)) =>
        /\ CanonicalQueryString(signing.left) = CanonicalQueryString(signing.right)
        /\ signing.leftSigned = signing.rightSigned

\* ---------------------------------------------------------------- C30
\* a step of loadPlatforms that writes the store: its final set() or its catch block
LoadPlatformsWrites == lastOp' \in {"loadPlatforms.done", "loadPlatforms.catch"}

\* C30: loadPlatforms never changes status or selectedPlatforms while a pass is
\* syncing or completed, also when the pass was started (startSync) while
\* loadPlatforms was awaiting its auth/storage responses: then only
\* `platforms` is updated.
C30_LoadPlatformsPreserves ==
    [][(LoadPlatformsWrites /\ status \in {"syncing", "completed"}) =>
          /\ status' = status
          /\ selectedPlatforms' = selectedPlatforms
          /\ UNCHANGED <<article, results, error, imageProgress, history>>]_vars

\* ---------------------------------------------------------------- C31
\* C31: recoverSyncState applies a persisted snapshot at most once per store:
\* once a call has set `recovered`, the steps of any further call, also of one
\* that was awaiting GET_SYNC_STATE meanwhile, leave status, article,
\* selectedPlatforms and results unchanged.
C31_RecoverOnce ==
    [][(recovered /\ lastOp' = "recoverSyncState.apply") =>
          UNCHANGED <<status, article, selectedPlatforms, results>>]_vars

\* ---------------------------------------------------------------- C32
\* the client holds no socket and no reconnect timer is pending
Stopped ==
    /\ mcp.ws = NoSocket
    /\ mcp.reconnectTimer = NoTimer
    /\ mcp.timers = {}

\* the calls that connect explicitly
ExplicitConnects ==
    {"mcp.connect", "mcp.connect.catch", "mcp.resetReconnect",
     "mcp.resetReconnect.catch"}

\* the step constructs no socket
OpensNoSocket ==
    \A s \in SocketIds :
        mcp'.sockets[s].readyState = "CONNECTING"
            => mcp.sockets[s].readyState = "CONNECTING"

\* C32: after disconnect() no automatic reconnect happens: disconnect leaves
\* the client without socket and without pending reconnect timer, and no step
\* other than an explicit connect() or resetReconnect() (a close or error
\* event of an old socket, a timer) schedules a reconnect or opens a socket.
C32_DisconnectStays ==
    [][/\ lastOp' = "mcp.disconnect" => Stopped'
       /\ (Stopped /\ lastOp' \notin ExplicitConnects)
             => (Stopped' /\ OpensNoSocket)]_vars

\* the socket that disconnect() closed delivers its close event and the client
\* stays stopped
C32_Witness ==
    /\ lastOp = "mcp.closed"
    /\ mcp.reconnectAttempts = maxReconnectAttempts
    /\ Stopped

\* ---------------------------------------------------------------- C33
\* the publish requests among the messages a step dispatched
PublishRequests(msgs) == {m \in msgs : m.type \in {"SYNC_ARTICLE", "SYNC_TO_CMS"}}

\* C33: at most one publish pass is in flight: a call of startSync or
\* retryFailed made while status is `syncing` dispatches no SYNC_ARTICLE or
\* SYNC_TO_CMS message and leaves `results` as it is.
C33_OnePassInFlight ==
    [][(status = "syncing" /\ lastOp' \in {"startSync", "retryFailed"})
          => (PublishRequests(sent') = {} /\ results' = results)]_vars

\* ---------------------------------------------------------------- C34
\* reset() has been called while a pass dispatched before it is still
\* suspended, and neither startSync nor retryFailed has been called since
ResetDuringPass ==
    /\ status = "idle"
    /\ results = <<>>
    /\ ss.pc # "idle" \/ rf.pc # "idle"

\* C34: after reset, status stays `idle` and results stays empty until the
\* next call of startSync or retryFailed: the continuations and the progress
\* events of a pass dispatched before the reset neither complete the store nor
\* put results back.
C34_ResetHolds ==
    [][(ResetDuringPass /\ lastOp' \notin {"startSync", "retryFailed"})
          => (status' = "idle" /\ results' = <<>>)]_vars

\* ---------------------------------------------------------------- C35
\* rs holds exactly one entry for each id of sel and no other entry
OneResultEach(rs, sel) ==
    /\ \A id \in Range(sel) :
          Cardinality({i \in DOMAIN rs : rs[i].platform = id}) = 1
    /\ \A i \in DOMAIN rs : rs[i].platform \in Range(sel)

\* C35: when a startSync pass reaches `completed`, results holds exactly one
\* entry for each platform id that was selected when startSync was called: no
\* selected platform is dropped and none appears twice.
C35_OneResultPerSelected ==
    [][(lastOp' = "startSync.done" /\ status' = "completed")
          => OneResultEach(results', ss.sel)]_vars

\* ---------------------------------------------------------------- C36
\* C36: the history entry whose results retryFailed replaces is the entry that
\* was recorded for the pass being retried: the entry the retry read at index 0
\* and writes back with new results carries the article of the retried pass.
C36_RetriedEntry ==
    [][(lastOp' = "retryFailed.done" /\ rf.pc = "write")
          => rf.existing[1].title = rf.article]_vars

\* ---------------------------------------------------------------- C37
\* C37: a failed platform is never lost by a retry: when retryFailed ends, by
\* its last set() or by its catch block, every platform that had a failed
\* result when it was called still has a result in `results`.
C37_FailedKept ==
    [][(rf.pc # "idle" /\ rf'.pc = "idle")
          => \A id \in Range(rf.failed) :
                \E i \in DOMAIN results' : results'[i].platform = id]_vars

\* ---------------------------------------------------------------- C38
\* the responses a step wrote to a socket
ResponsesIn(step) == {x \in step : x.type = "response"}

\* C38: a response is only ever sent on the socket on which its request
\* arrived, and a request produces at most one response: the step that ends a
\* request being served writes at most one response, and writes it to the
\* socket the request came in on.
C38_ResponseOnArrivalSocket ==
    [][\A c \in mcp.calls :
          (lastOp' = "mcp.msg.done" /\ c \notin mcp'.calls)
             => /\ Cardinality(ResponsesIn(sent')) <= 1
                /\ \A r \in ResponsesIn(sent') : r.socket = c.socket]_vars

\* ---------------------------------------------------------------- C39
\* some call was made and every call made has returned its result
ImoocAllReturned ==
    /\ \E i \in 1..MaxImoocCalls : imooc.calls[i].pc = "returned"
    /\ \A i \in 1..MaxImoocCalls : imooc.calls[i].pc \in {"idle", "returned"}

\* C39: once all calls of checkAuth and publish made on an imooc adapter
\* instance have returned, every header rule they added has been removed and
\* headerRuleId is null, also when the calls overlapped.
C39_NoRuleLeak ==
    ImoocAllReturned => (imooc.rules = {} /\ imooc.headerRuleId = NoRule)

\* ---------------------------------------------------------------- C40
\* the latest call of the Weixin adapter is a checkAuth that answered
\* isAuthenticated = false
WeixinAuthFailed ==
    /\ adapter.id = "weixin"
    /\ adapter.method = "checkAuth"
    /\ adapter.outcome.kind = "AuthResult"
    /\ ~adapter.outcome.isAuthenticated

\* the events of a log that are requests made with the session token
SessionRequests(log) ==
    {i \in DOMAIN log : log[i].op \in {"upload", "fetch.create"}}

\* C40: the cached session of the Weixin adapter reflects its latest auth
\* check: after a checkAuth that answered isAuthenticated = false no cached
\* session remains, and a publish that follows begins with the auth check and,
\* unless that check finds a login, returns a failed SyncResult without any
\* image upload or create-draft request.
C40_SessionFollowsAuth ==
    [][WeixinAuthFailed =>
          /\ ~adapter.weixinMeta
          /\ (adapter'.id = "weixin" /\ adapter'.method = "publish") =>
                /\ Len(adapter'.log) > 0
                /\ adapter'.log[1].op = "fetch.auth"
                /\ (\A i \in DOMAIN adapter'.log :
                        adapter'.log[i].op # "authEnsured") =>
                      /\ adapter'.outcome.kind = "SyncResult"
                      /\ ~adapter'.outcome.success
                      /\ SessionRequests(adapter'.log) = {}]_vars
====
